---- MODULE Spec2Model ----
(***************************************************************************)
(* Asynchronous story-generation pipeline of the story API:                *)
(*   - the Job Status Registry        (api/services/webhook_service.py)    *)
(*   - the Generation Job             (process_story_generation_async)     *)
(*   - the Webhook Dispatcher         (send_completion_webhook)            *)
(*   - the Realtime Notifier          (api/services/websocket_service.py)  *)
(*   - the request handler            (api/main.py, generate_story_webhook)*)
(*                                                                         *)
(* Conventions.                                                            *)
(*   Optional[T] is a set with at most one element: None is {} and a       *)
(*   present value v is {v}.                                               *)
(*   progress is kept in tenths: the float 0.3 of the source is 3.         *)
(*   A request id is the index of the request: uuid4 values are taken to   *)
(*   be fresh.                                                             *)
(***************************************************************************)
EXTENDS Integers, Sequences, FiniteSets, TLC

VARIABLES
    webhook_statuses,       \* the registry: request id -> WebhookStatus
    now,                    \* int(time.time())
    pc,                     \* per request: position of the handler / background task
    req,                    \* per request: request_data and callback_url
    loc,                    \* per request: locals of process_story_generation_async
    history,                \* per request: <<status, progress>> after each registry write
    calls,                  \* per request: the stages run so far, each with its outcome
    posts,                  \* per request: payloads POSTed to the callback URL, in order
    delivered,              \* per request: value returned by send_completion_webhook
    active_connections,     \* ConnectionManager: user -> set of connection ids
    request_subscriptions,  \* ConnectionManager: connection id -> set of request ids
    user_subscriptions,     \* ConnectionManager: user -> set of request ids
    outbox,                 \* per connection: what the broadcast in progress has delivered to it
    owed,                   \* <<connection, request>>: updated while subscribed, not yet told
    caption_call,           \* one call of analyze_multiple_images: its images and its result
    response,               \* the last answer of GET /api/stories/status/{request_id}
    caller,                 \* a caller under study: endpoint, users row, request
    sync,                   \* POST /api/stories/generate: stages run, tasks added, answer
    answer,                 \* per request: the answer of POST /api/stories/generate/webhook
    bcast,                  \* the frame of the broadcast call in progress, or of the last one
    update_call,            \* the frame of an update_webhook_status call followed line by line
    estimate,               \* a generate_story_from_scenarios call: its tier, its text's length, its answer
    post_call,              \* a send_completion_webhook call: its URL, what the POST did, its return value
    profile,                \* the caller's row of the profiles table, where it is followed
    handler,                \* per call of the synchronous endpoint: its line and what it has done
    rate_limit_store,       \* rate limiter: rate key -> count and reset
    clock,                  \* rate limiter: int(time.time()) in seconds
    dispatch,               \* per request in the middleware: its line, its locals, its response
    cleanup,                \* cleanup_rate_limits: the time its sleep ends
    passed,                 \* rate key -> the times at which call_next was called
    opened,                 \* rate key -> the times at which an entry with count 0 was written
    arrivals                \* the number of requests the middleware has received

vars == <<webhook_statuses, now, pc, req, loc, history, calls, posts, delivered,
          active_connections, request_subscriptions, user_subscriptions,
          outbox, owed, caption_call, response, caller, sync, answer, bcast,
          update_call, estimate, post_call, profile, handler,
          rate_limit_store, clock, dispatch, cleanup, passed, opened, arrivals>>

registryVars == <<webhook_statuses, history, owed>>
jobVars      == <<pc, req, loc, calls, posts, delivered>>
notifierVars == <<active_connections, request_subscriptions, user_subscriptions, outbox>>
creditVars   == <<profile, handler>>
limiterVars  == <<rate_limit_store, clock, dispatch, cleanup, passed, opened, arrivals>>
extraVars    == <<estimate, post_call, creditVars, limiterVars>>
serviceVars  == <<now, caption_call, response, caller, sync, answer, bcast, update_call,
                  registryVars, jobVars, notifierVars>>
probeVars    == <<caption_call, response, caller, sync, answer, bcast, update_call,
                 extraVars>>

---------------------------------------------------------------------------
(* Bounds *)

MaxJobs == 1
MaxPeers == 1
MaxWords == 300
MaxHandlers == 2
MaxTime == 1
MaxUsers == 2
MaxSockets == 3
MaxCredits == 1
MaxArrivals == 7
MaxDispatches == 1
MaxWindows == 1

RequestIds     == 1..MaxJobs
\* The requests whose tasks share the event loop: one and its MaxPeers peers
PeerIds        == 1..(1 + MaxPeers)
UserIds        == 1..MaxUsers
SocketIds      == 1..MaxSockets
\* The user a websocket is opened for: the sockets are dealt to the users in turn
UserOf(socket) == ((socket - 1) % MaxUsers) + 1
\* connection_id = f"{user_id}_{id(websocket)}"
ConnectionIds  == {<<UserOf(socket), socket>> : socket \in SocketIds}

---------------------------------------------------------------------------
(* Optional values *)

None == {}
Some(v) == {v}
The(o) == CHOOSE v \in o : TRUE

---------------------------------------------------------------------------
(* Job Status Registry *)

WebhookStatus(request_id, status, progress, result, error, created_at, updated_at) ==
    [request_id |-> request_id, status |-> status, progress |-> progress,
     result |-> result, error |-> error,
     created_at |-> created_at, updated_at |-> updated_at]

\* Mutant: the new entry is already in processing
create_webhook_status_InProgress(statuses, request_id, t) ==
    IF request_id \in DOMAIN statuses
    THEN [statuses EXCEPT ![request_id] =
              WebhookStatus(request_id, "processing", 1, None, None, t, t)]
    ELSE statuses @@
         (request_id :> WebhookStatus(request_id, "processing", 1, None, None, t, t))

\* The registry after create_webhook_status(request_id)
create_webhook_status(statuses, request_id, t) ==
    IF request_id \in DOMAIN statuses
    THEN [statuses EXCEPT ![request_id] =
              WebhookStatus(request_id, "pending", 0, None, None, t, t)]
    ELSE statuses @@
         (request_id :> WebhookStatus(request_id, "pending", 0, None, None, t, t))

\* Mutant: every field is assigned, a field that was not provided is reset
update_webhook_status_Overwrite(statuses, request_id, status, progress, result, error, t) ==
    IF request_id \notin DOMAIN statuses
    THEN statuses
    ELSE LET current == statuses[request_id] IN
         [statuses EXCEPT ![request_id] =
            [current EXCEPT
               !.status     = IF status # None THEN The(status) ELSE @,
               !.progress   = IF progress # None THEN The(progress) ELSE @,
               !.result     = result,
               !.error      = error,
               !.updated_at = t]]

\* The registry after update_webhook_status(request_id, status, progress, result, error);
\* every argument is Optional and None leaves the field as it is.
update_webhook_status(statuses, request_id, status, progress, result, error, t) ==
    IF request_id \notin DOMAIN statuses
    THEN statuses
    ELSE LET current == statuses[request_id] IN
         [statuses EXCEPT ![request_id] =
            [current EXCEPT
               !.status     = IF status # None THEN The(status) ELSE @,
               !.progress   = IF progress # None THEN The(progress) ELSE @,
               !.result     = IF result # None THEN result ELSE @,
               !.error      = IF error # None THEN error ELSE @,
               !.updated_at = t]]

\* The value update_webhook_status returns: None (after logging) for an id that
\* is not in the registry, else the updated entry
update_webhook_status_returns(statuses, request_id, status, progress, result, error, t) ==
    IF request_id \notin DOMAIN statuses
    THEN None
    ELSE Some(update_webhook_status(statuses, request_id, status, progress,
                                    result, error, t)[request_id])

\* webhook_statuses.get(request_id)
get_webhook_status(statuses, request_id) ==
    IF request_id \in DOMAIN statuses THEN Some(statuses[request_id]) ELSE None

---------------------------------------------------------------------------
(* Realtime Notifier: who is subscribed *)

\* The connections broadcast_to_subscribers(request_id, ...) sends to
Subscribers(request_id) ==
    {c \in ConnectionIds :
        /\ c[1] \in DOMAIN user_subscriptions
        /\ request_id \in user_subscriptions[c[1]]
        /\ c[1] \in DOMAIN active_connections
        /\ c \in active_connections[c[1]]
        /\ c \in DOMAIN request_subscriptions
        /\ request_id \in request_subscriptions[c]}

\* The active connections whose own subscription set holds request_id
SubscribedConnections(request_id) ==
    {c \in ConnectionIds :
        /\ c[1] \in DOMAIN active_connections
        /\ c \in active_connections[c[1]]
        /\ c \in DOMAIN request_subscriptions
        /\ request_id \in request_subscriptions[c]}

---------------------------------------------------------------------------
(* Values the external collaborators produce *)

ImportErrorMessage == "attempted relative import beyond top-level package"
\* str(e) of what generate_story_from_scenarios raises: its own message for a
\* non-200 answer, or the transport's (empty for a read timeout)
StoryErrors == {"Failed to generate story: upstream error", ""}
SpeechErrors == {"Failed to generate speech", "Failed to upload audio file"}
CallbackUrls == {"https://client.example/hook"}
MusicTypes == {"calming"}
StoryText == "Once upon a time"
DurationSeconds == 60
LlmTitle == "The Moonlit Garden"
VoicePath == "generated-stories/u/voice.mp3"
MixedPath == "generated-stories/u/mixed.mp3"
AudioUrl(audio_path) == "https://sb.example/storage/v1/object/public/" \o audio_path

NoLocals ==
    [image_paths |-> {}, language |-> None, title |-> None, voice_path |-> None,
     audio_path |-> None, background_music_id |-> None, story_id |-> None]

NoRequest == [callback_url |-> None, backgroundMusic |-> None]

---------------------------------------------------------------------------
(* One registry write of the Generation Job for request j *)

\* Mutant: the write goes to the entry that was created last, as if the request
\* id were kept in one module-level name
RegistryUpdate_LatestEntry(j, status, progress, result, error) ==
    LET latest == CHOOSE k \in DOMAIN webhook_statuses :
                      \A i \in DOMAIN webhook_statuses : i <= k
    IN
    /\ webhook_statuses' =
           update_webhook_status(webhook_statuses, latest, status, progress, result, error, now)
    /\ history' = [history EXCEPT ![latest] =
           Append(@, <<webhook_statuses'[latest].status, webhook_statuses'[latest].progress>>)]
    /\ owed' = owed \cup {<<c, latest>> : c \in SubscribedConnections(latest)}

RegistryUpdate(j, status, progress, result, error) ==
    /\ webhook_statuses' =
           update_webhook_status(webhook_statuses, j, status, progress, result, error, now)
    /\ history' = [history EXCEPT ![j] =
           Append(@, <<webhook_statuses'[j].status, webhook_statuses'[j].progress>>)]
    /\ owed' = owed \cup {<<c, j>> : c \in SubscribedConnections(j)}

\* Mutant: the failure update without progress=0.0
MarkFailed_KeepsProgress(j, message) ==
    RegistryUpdate(j, Some("failed"), None, None, Some(message))

\* status="failed", error=..., progress=0.0
MarkFailed(j, message) ==
    RegistryUpdate(j, Some("failed"), Some(0), None, Some(message))

\* Mutant: the completion update without progress=1.0
MarkCompleted_NoProgress(j, result) ==
    RegistryUpdate(j, Some("completed"), None, Some(result), None)

\* status="completed", progress=1.0, result=result
MarkCompleted(j, result) ==
    RegistryUpdate(j, Some("completed"), Some(10), Some(result), None)

Goto(j, label) == pc' = [pc EXCEPT ![j] = label]

\* The stage's external call has returned (ok) or has failed or raised (~ok)
Called(j, stage, ok) ==
    calls' = [calls EXCEPT ![j] =
                 Append(@, [stage |-> stage, ok |-> ok, raised |-> None])]

\* The stage's external call has raised an exception whose str() is message
Raised(j, stage, message) ==
    calls' = [calls EXCEPT ![j] =
                 Append(@, [stage |-> stage, ok |-> FALSE, raised |-> Some(message)])]

---------------------------------------------------------------------------
(* POST /api/stories/generate/webhook *)

\* The users table: a row as get_user_by_id returns it, None for an id without a row
SubscriptionTiers == {"free", "premium", "family"}
Users ==
    {None} \cup {Some([story_credits |-> n, subscription_tier |-> t]) :
                    n \in 0..MaxCredits, t \in SubscriptionTiers}

\* DurationEnum: medium is treated like short by both endpoints
Durations == {"short", "long"}

\* The fields of a generation request that the endpoints and the task look at
Requests ==
    [callback_url : {None} \cup {Some(u) : u \in CallbackUrls},
     backgroundMusic : {None} \cup {Some(m) : m \in MusicTypes},
     duration : Durations]

\* UserRepository.decrement_story_credits: what it returns and the row it leaves
decrement_story_credits(user) ==
    IF user = None \/ The(user).story_credits <= 0
    THEN [returns |-> FALSE, row |-> user]
    ELSE [returns |-> TRUE,
          row |-> Some([The(user) EXCEPT !.story_credits = @ - 1])]

\* Mutant: only a missing row is refused, a row without credits passes
check_user_credits_IgnoresBalance(user) ==
    IF user = None
    THEN [has_credits |-> FALSE, reason |-> "User not found"]
    ELSE [has_credits |-> TRUE, reason |-> ""]

\* UserRepository.check_user_credits
check_user_credits(user) ==
    IF user = None
    THEN [has_credits |-> FALSE, reason |-> "User not found"]
    ELSE IF The(user).story_credits <= 0
         THEN [has_credits |-> FALSE, reason |-> "Insufficient story credits"]
         ELSE [has_credits |-> TRUE, reason |-> ""]

\* UserRepository.check_subscription_features
check_subscription_features(user) ==
    IF user = None
    THEN [success |-> FALSE, reason |-> "User not found",
          long_stories |-> FALSE, background_music |-> FALSE]
    ELSE LET subscription_tier == The(user).subscription_tier IN
         [success |-> TRUE, reason |-> "",
          long_stories |-> subscription_tier \in {"premium", "family"},
          background_music |-> subscription_tier \in {"premium", "family"}]

\* The handler for request slot j, called by user with request
generate_story_webhook_call(j, user, request) ==
    LET credits_info == check_user_credits(user) IN
    IF ~credits_info.has_credits
    THEN /\ Goto(j, "rejected")
         /\ answer' = [answer EXCEPT ![j] =
                Some([success |-> FALSE, requestId |-> None,
                      error |-> Some("Story generation failed: " \o credits_info.reason)])]
         /\ UNCHANGED <<webhook_statuses, history, req>>
    ELSE /\ webhook_statuses' = create_webhook_status(webhook_statuses, j, now)
         /\ history' = [history EXCEPT ![j] = <<<<"pending", 0>>>>]
         /\ req' = [req EXCEPT ![j] = [callback_url |-> request.callback_url,
                                       backgroundMusic |-> request.backgroundMusic]]
         /\ answer' = [answer EXCEPT ![j] =
                Some([success |-> TRUE, requestId |-> Some(j), error |-> None])]
         /\ Goto(j, "scheduled")

generate_story_webhook(j) ==
    /\ pc[j] = "idle"
    /\ \A i \in 1..(j - 1) : pc[i] # "idle"
    /\ \E user \in Users, request \in Requests :
          generate_story_webhook_call(j, user, request)
    /\ UNCHANGED <<now, caption_call, response, caller, sync, bcast, update_call,
                   loc, calls, posts, delivered, owed, notifierVars,
                   extraVars>>

---------------------------------------------------------------------------
(* GET /api/stories/status/{request_id} *)

\* An id a client asks for that no request was given
UnknownIds == {0}

\* Mutant: an unknown id is answered like a job that has not started
StatusResponse_PendingForUnknown(statuses, request_id) ==
    LET status == get_webhook_status(statuses, request_id) IN
    [status_code |-> 200,
     body |-> IF status = None
              THEN [requestId |-> request_id, status |-> "pending", progress |-> 0,
                    createdAt |-> 0, updatedAt |-> 0, result |-> None, error |-> None]
              ELSE [requestId |-> The(status).request_id,
                    status    |-> The(status).status,
                    progress  |-> The(status).progress,
                    createdAt |-> The(status).created_at,
                    updatedAt |-> The(status).updated_at,
                    result    |-> The(status).result,
                    error     |-> The(status).error]]

\* The answer of the endpoint: 404 when get_webhook_status returns None, else the
\* fields of the entry
StatusResponse(statuses, request_id) ==
    LET status == get_webhook_status(statuses, request_id) IN
    IF status = None
    THEN [status_code |-> 404, body |-> [detail |-> "Request ID not found"]]
    ELSE [status_code |-> 200,
          body |-> [requestId |-> The(status).request_id,
                    status    |-> The(status).status,
                    progress  |-> The(status).progress,
                    createdAt |-> The(status).created_at,
                    updatedAt |-> The(status).updated_at,
                    result    |-> The(status).result,
                    error     |-> The(status).error]]

get_story_status(request_id) ==
    /\ response' = Some([request_id |-> request_id,
                         answer |-> StatusResponse(webhook_statuses, request_id)])
    /\ UNCHANGED <<now, caption_call, caller, sync, answer, bcast, update_call, registryVars, jobVars, notifierVars,
                   extraVars>>

---------------------------------------------------------------------------
(* update_webhook_status, one assignment at a time *)

\* The updates the Generation Job issues: a progress step, the completion, a failure
JobUpdates ==
    { [status |-> Some("processing"), progress |-> Some(1), result |-> None, error |-> None],
      [status |-> Some("completed"), progress |-> Some(10),
       result |-> Some([success |-> TRUE]), error |-> None],
      [status |-> Some("failed"), progress |-> Some(0), result |-> None,
       error |-> Some("boom")] }

\* No call of update_webhook_status is in progress
NoUpdateCall ==
    [line |-> "idle", request_id |-> 0, arguments |-> None, before |-> <<>>]

\* Mutant: an await between the assignment of the status and that of the progress
UpdateSuspensionPoints_AfterStatus == {"progress"}

\* The lines of update_webhook_status at which the coroutine awaits, so that
\* the event loop can run another handler: its body has no await
UpdateSuspensionPoints == {}

\* Another handler can run: no update call is between two of its lines, or the
\* call is suspended
HandlerCanRun ==
    update_call.line \in {"idle"} \cup UpdateSuspensionPoints

\* The task calls update_webhook_status(request_id, **arguments) for an entry
\* of the registry: current = webhook_statuses[request_id]
BeginUpdate(request_id, arguments) ==
    /\ update_call.line = "idle"
    /\ request_id \in DOMAIN webhook_statuses
    /\ update_call' = [line |-> "status", request_id |-> request_id,
                       arguments |-> Some(arguments), before |-> webhook_statuses]
    /\ UNCHANGED <<now, caption_call, response, caller, sync, answer, bcast,
                   registryVars, jobVars, notifierVars,
                   extraVars>>

\* One line of the body: current.<field> = <argument> if the argument is not
\* None; the object is the one the registry holds, so the assignment is seen by
\* whoever reads the entry next
AssignField ==
    /\ update_call.line \notin {"idle", "updated_at"}
    /\ LET field == update_call.line
           a == The(update_call.arguments)
           r == update_call.request_id
       IN
       /\ webhook_statuses' =
             CASE field = "status" /\ a.status # None ->
                     [webhook_statuses EXCEPT ![r].status = The(a.status)]
               [] field = "progress" /\ a.progress # None ->
                     [webhook_statuses EXCEPT ![r].progress = The(a.progress)]
               [] field = "result" /\ a.result # None ->
                     [webhook_statuses EXCEPT ![r].result = a.result]
               [] field = "error" /\ a.error # None ->
                     [webhook_statuses EXCEPT ![r].error = a.error]
               [] OTHER -> webhook_statuses
       /\ update_call' = [update_call EXCEPT !.line =
             CASE field = "status" -> "progress"
               [] field = "progress" -> "result"
               [] field = "result" -> "error"
               [] field = "error" -> "updated_at"]
    /\ UNCHANGED <<now, caption_call, response, caller, sync, answer, bcast,
                   history, owed, jobVars, notifierVars,
                   extraVars>>

\* current.updated_at = int(time.time()); return current
AssignUpdatedAt ==
    /\ update_call.line = "updated_at"
    /\ webhook_statuses' =
          [webhook_statuses EXCEPT ![update_call.request_id].updated_at = now]
    /\ update_call' = [update_call EXCEPT !.line = "idle"]
    /\ UNCHANGED <<now, caption_call, response, caller, sync, answer, bcast,
                   history, owed, jobVars, notifierVars,
                   extraVars>>

\* await webhook_service.create_webhook_status(request_id), for the first request
CreateEntry ==
    /\ update_call.line = "idle"
    /\ webhook_statuses = <<>>
    /\ webhook_statuses' = create_webhook_status(webhook_statuses, 1, now)
    /\ UNCHANGED <<now, probeVars, history, owed, jobVars, notifierVars>>

---------------------------------------------------------------------------
(* process_story_generation_async *)

Start(j) ==
    /\ pc[j] = "scheduled"
    /\ RegistryUpdate(j, Some("processing"), Some(1), None, None)
    /\ Goto(j, "import")
    /\ UNCHANGED <<now, probeVars, req, loc, calls, posts, delivered, notifierVars>>

\* from ..services import (...): resolves, or raises ImportError when the
\* services package was loaded as a top-level package
ImportServices(j) ==
    /\ pc[j] = "import"
    /\ \E resolves \in BOOLEAN :
          IF resolves
          THEN /\ Called(j, "import", TRUE)
               /\ Goto(j, "u02")
               /\ UNCHANGED registryVars
          ELSE /\ Raised(j, "import", ImportErrorMessage)
               /\ MarkFailed(j, ImportErrorMessage)
               /\ Goto(j, "notify")
    /\ UNCHANGED <<now, probeVars, req, loc, posts, delivered, notifierVars>>

\* Mutant: the progress values of two neighbouring updates exchanged
ProgressSite_Swapped ==
    ( "u02" :> [progress |-> 2, next |-> "store_images"] ) @@
    ( "u03" :> [progress |-> 3, next |-> "analyze"] ) @@
    ( "u04" :> [progress |-> 5, next |-> "story"] ) @@
    ( "u05" :> [progress |-> 4, next |-> "title"] ) @@
    ( "u06" :> [progress |-> 6, next |-> "speech"] ) @@
    ( "u07" :> [progress |-> 7, next |-> "mix"] ) @@
    ( "u08" :> [progress |-> 8, next |-> "create_story"] ) @@
    ( "u09" :> [progress |-> 9, next |-> "store_related"] )

\* Mutant: the update of the title stage is followed by the speech stage
ProgressSite_TitleSkipped ==
    ( "u02" :> [progress |-> 2, next |-> "store_images"] ) @@
    ( "u03" :> [progress |-> 3, next |-> "analyze"] ) @@
    ( "u04" :> [progress |-> 4, next |-> "story"] ) @@
    ( "u05" :> [progress |-> 5, next |-> "speech"] ) @@
    ( "u06" :> [progress |-> 6, next |-> "speech"] ) @@
    ( "u07" :> [progress |-> 7, next |-> "mix"] ) @@
    ( "u08" :> [progress |-> 8, next |-> "create_story"] ) @@
    ( "u09" :> [progress |-> 9, next |-> "store_related"] )

\* The update_webhook_status(request_id, progress=...) calls between the stages
ProgressSite ==
    ( "u02" :> [progress |-> 2, next |-> "store_images"] ) @@
    ( "u03" :> [progress |-> 3, next |-> "analyze"] ) @@
    ( "u04" :> [progress |-> 4, next |-> "story"] ) @@
    ( "u05" :> [progress |-> 5, next |-> "title"] ) @@
    ( "u06" :> [progress |-> 6, next |-> "speech"] ) @@
    ( "u07" :> [progress |-> 7, next |-> "mix"] ) @@
    ( "u08" :> [progress |-> 8, next |-> "create_story"] ) @@
    ( "u09" :> [progress |-> 9, next |-> "store_related"] )

UpdateProgress(j) ==
    /\ pc[j] \in DOMAIN ProgressSite
    /\ RegistryUpdate(j, None, Some(ProgressSite[pc[j]].progress), None, None)
    /\ Goto(j, ProgressSite[pc[j]].next)
    /\ UNCHANGED <<now, probeVars, req, loc, calls, posts, delivered, notifierVars>>

\* Mutant: the failure branch without its return, so the pipeline goes on
StoreImages_NoReturn(j) ==
    /\ pc[j] = "store_images"
    /\ \E image_paths \in {{}, {"user-uploads/u/img.jpg"}} :
          /\ loc' = [loc EXCEPT ![j].image_paths = image_paths]
          /\ Called(j, "store_images", image_paths # {})
          /\ IF image_paths = {}
             THEN /\ MarkFailed(j, "Failed to process images")
                  /\ Goto(j, "u03")
             ELSE /\ Goto(j, "u03")
                  /\ UNCHANGED registryVars
    /\ UNCHANGED <<now, probeVars, req, posts, delivered, notifierVars>>

\* Mutant: the returned list is not looked at
StoreImages_NoCheck(j) ==
    /\ pc[j] = "store_images"
    /\ \E image_paths \in {{}, {"user-uploads/u/img.jpg"}} :
          /\ loc' = [loc EXCEPT ![j].image_paths = image_paths]
          /\ Called(j, "store_images", image_paths # {})
    /\ Goto(j, "u03")
    /\ UNCHANGED <<now, probeVars, req, posts, delivered, registryVars, notifierVars>>

\* image_paths = await store_images(...); if not image_paths: failed, webhook, return
StoreImages(j) ==
    /\ pc[j] = "store_images"
    /\ \E image_paths \in {{}, {"user-uploads/u/img.jpg"}} :
          /\ loc' = [loc EXCEPT ![j].image_paths = image_paths]
          /\ Called(j, "store_images", image_paths # {})
          /\ IF image_paths = {}
             THEN /\ MarkFailed(j, "Failed to process images")
                  /\ Goto(j, "notify")
             ELSE /\ Goto(j, "u03")
                  /\ UNCHANGED registryVars
    /\ UNCHANGED <<now, probeVars, req, posts, delivered, notifierVars>>

\* scenarios = await analyze_multiple_images(...): one caption per image, never raises
AnalyzeImages(j) ==
    /\ pc[j] = "analyze"
    /\ Called(j, "analyze", TRUE)
    /\ Goto(j, "u04")
    /\ UNCHANGED <<now, probeVars, req, loc, posts, delivered, registryVars, notifierVars>>

\* Mutant: the raise is not caught and ends the task
GenerateStory_Uncaught(j) ==
    /\ pc[j] = "story"
    /\ \E raised \in {None} \cup {Some(m) : m \in StoryErrors} :
          /\ Called(j, "story", raised = None)
          /\ IF raised = None
             THEN /\ Goto(j, "u05")
                  /\ UNCHANGED loc
             ELSE /\ Goto(j, "done")
                  /\ loc' = [loc EXCEPT ![j] = NoLocals]
    /\ UNCHANGED <<now, probeVars, req, posts, delivered, registryVars, notifierVars>>

\* Mutant: the except clause stores a message of its own, not str(e)
GenerateStory_GenericMessage(j) ==
    /\ pc[j] = "story"
    /\ \E raised \in {None} \cup {Some(m) : m \in StoryErrors} :
          IF raised = None
          THEN /\ Called(j, "story", TRUE)
               /\ Goto(j, "u05")
               /\ UNCHANGED registryVars
          ELSE /\ Raised(j, "story", The(raised))
               /\ MarkFailed(j, "Story generation failed")
               /\ Goto(j, "notify")
    /\ UNCHANGED <<now, probeVars, req, loc, posts, delivered, notifierVars>>

\* generate_story_from_scenarios returns the text or raises; the raise is caught by
\* the except clause of process_story_generation_async, which stores str(e)
GenerateStory(j) ==
    /\ pc[j] = "story"
    /\ \E raised \in {None} \cup {Some(m) : m \in StoryErrors} :
          IF raised = None
          THEN /\ Called(j, "story", TRUE)
               /\ Goto(j, "u05")
               /\ UNCHANGED registryVars
          ELSE /\ Raised(j, "story", The(raised))
               /\ MarkFailed(j, The(raised))
               /\ Goto(j, "notify")
    /\ UNCHANGED <<now, probeVars, req, loc, posts, delivered, notifierVars>>

\* LanguageEnum
Languages == {"english", "french", "japanese", "indonesian"}

\* The word lists of generate_fallback_title; a letter outside ASCII is written
\* as its code point (U+00EA)
adjectives ==
    ( "english" :>
        <<"Magical", "Dreamy", "Wonderful", "Enchanted", "Sleepy", "Cozy", "Starry">> ) @@
    ( "french" :>
        <<"Magique", "RU+00EAveur", "Merveilleux", "EnchantU+00E9", "Somnolent", "Confortable", "U+00C9toilU+00E9">> ) @@
    ( "japanese" :>
        <<"U+9B54U+6CD5U+306E", "U+5922U+898BU+308B", "U+7D20U+6674U+3089U+3057U+3044", "U+9B45U+60D1U+7684U+306A", "U+7720U+305FU+3044", "U+5C45U+5FC3U+5730U+306EU+826FU+3044", "U+661FU+7A7AU+306E">> ) @@
    ( "indonesian" :>
        <<"Ajaib", "Bermimpi", "Indah", "Mempesona", "Mengantuk", "Nyaman", "Berbintang">> )

nouns ==
    ( "english" :>
        <<"Adventure", "Journey", "Dreams", "Night", "Forest", "Friends", "Story">> ) @@
    ( "french" :>
        <<"Aventure", "Voyage", "RU+00EAves", "Nuit", "ForU+00EAt", "Amis", "Histoire">> ) @@
    ( "japanese" :>
        <<"U+5192U+967A", "U+65C5", "U+5922", "U+591C", "U+68EE", "U+53CBU+9054", "U+7269U+8A9E">> ) @@
    ( "indonesian" :>
        <<"Petualangan", "Perjalanan", "Mimpi", "Malam", "Hutan", "Teman", "Cerita">> )

\* Mutant: the English lists are used whatever the language
generate_fallback_title_AlwaysEnglish(language, a, n) ==
    adjectives["english"][a] \o " " \o nouns["english"][n]

\* generate_fallback_title; a and n are the positions random.choice picks
generate_fallback_title(language, a, n) ==
    LET lang == IF language \in DOMAIN adjectives THEN language ELSE "english" IN
    adjectives[lang][a] \o " " \o nouns[lang][n]

\* What the POST to the text service does inside generate_title: it raises, it
\* answers with a status other than 200, or it answers 200 with a body that
\* holds the title (content) or that has no choices (reading it raises)
TitleOutcomes ==
    {[raised |-> TRUE, status_code |-> 0, content |-> None]} \cup
    {[raised |-> FALSE, status_code |-> c, content |-> None] : c \in {200, 429, 500}} \cup
    {[raised |-> FALSE, status_code |-> 200, content |-> Some(LlmTitle)]}

TitleCallSucceeded(outcome) ==
    ~outcome.raised /\ outcome.status_code = 200 /\ outcome.content # None

generate_title(language, outcome, a, n) ==
    IF TitleCallSucceeded(outcome)
    THEN The(outcome.content)
    ELSE generate_fallback_title(language, a, n)

\* request_data["language"] of the requests the pipeline is run with, and the
\* positions random.choice picks there: the first adjective and the last noun
\* (FallbackTitleIsAdjectiveNoun goes through every pair of positions)
RequestLanguages == {"english", "indonesian"}
TitlePicks == {<<1, Len(nouns["english"])>>}

\* Mutant: a failed title call fails the job
GenerateTitle_FailureIsFatal(j) ==
    /\ pc[j] = "title"
    /\ \E language \in RequestLanguages, outcome \in TitleOutcomes, pick \in TitlePicks :
          /\ loc' = [loc EXCEPT
                       ![j].language = Some(language),
                       ![j].title = Some(generate_title(language, outcome, pick[1], pick[2]))]
          /\ IF TitleCallSucceeded(outcome)
             THEN /\ calls' = [calls EXCEPT ![j] = @ \o
                        << [stage |-> "title_api", ok |-> TRUE, raised |-> None],
                           [stage |-> "title", ok |-> TRUE, raised |-> None] >>]
                  /\ Goto(j, "u06")
                  /\ UNCHANGED registryVars
             ELSE /\ Called(j, "title_api", FALSE)
                  /\ MarkFailed(j, "Failed to generate title")
                  /\ Goto(j, "notify")
    /\ UNCHANGED <<now, probeVars, req, posts, delivered, notifierVars>>

\* title = await generate_title(scenarios, theme, language): the generated title,
\* or the fallback title when the call to the text service failed; never raises
GenerateTitle(j) ==
    /\ pc[j] = "title"
    /\ \E language \in RequestLanguages, outcome \in TitleOutcomes, pick \in TitlePicks :
          /\ loc' = [loc EXCEPT
                       ![j].language = Some(language),
                       ![j].title = Some(generate_title(language, outcome, pick[1], pick[2]))]
          /\ calls' = [calls EXCEPT ![j] = @ \o
                << [stage |-> "title_api", ok |-> TitleCallSucceeded(outcome), raised |-> None],
                   [stage |-> "title", ok |-> TRUE, raised |-> None] >>]
    /\ Goto(j, "u06")
    /\ UNCHANGED <<now, probeVars, req, posts, delivered, registryVars, notifierVars>>

\* Mutant: the error is the reason alone, without the "Failed to generate speech: "
GenerateSpeech_BareReason(j) ==
    /\ pc[j] = "speech"
    /\ \E speech_success \in BOOLEAN, reason \in SpeechErrors :
          LET voice_path == IF speech_success THEN VoicePath ELSE reason IN
          /\ loc' = [loc EXCEPT ![j].voice_path = Some(voice_path)]
          /\ Called(j, "speech", speech_success)
          /\ IF ~speech_success
             THEN /\ MarkFailed(j, voice_path)
                  /\ Goto(j, "notify")
             ELSE /\ Goto(j, "u07")
                  /\ UNCHANGED registryVars
    /\ UNCHANGED <<now, probeVars, req, posts, delivered, notifierVars>>

\* speech_success, voice_path = await generate_and_save_speech(...)
GenerateSpeech(j) ==
    /\ pc[j] = "speech"
    /\ \E speech_success \in BOOLEAN, reason \in SpeechErrors :
          LET voice_path == IF speech_success THEN VoicePath ELSE reason IN
          /\ loc' = [loc EXCEPT ![j].voice_path = Some(voice_path)]
          /\ Called(j, "speech", speech_success)
          /\ IF ~speech_success
             THEN /\ MarkFailed(j, "Failed to generate speech: " \o voice_path)
                  /\ Goto(j, "notify")
             ELSE /\ Goto(j, "u07")
                  /\ UNCHANGED registryVars
    /\ UNCHANGED <<now, probeVars, req, posts, delivered, notifierVars>>

\* What mix_audio_with_background returns: (mix_success, mixed_path, music_info)
MixOutcomes(voice_path) ==
    { <<TRUE, MixedPath, Some("music-1")>>,
      <<TRUE, voice_path, None>>,
      <<FALSE, "Failed to upload mixed audio", None>> }

\* Mutant: the second returned value becomes the audio path without a look at mix_success
AddBackgroundMusic_UsesReturnedPath(j) ==
    /\ pc[j] = "mix"
    /\ LET voice_path == The(loc[j].voice_path) IN
       IF req[j].backgroundMusic # None
       THEN \E out \in MixOutcomes(voice_path) :
               /\ loc' = [loc EXCEPT
                         ![j].audio_path = Some(out[2]),
                         ![j].background_music_id = out[3]]
               /\ Called(j, "mix", out[1])
       ELSE /\ loc' = [loc EXCEPT ![j].audio_path = Some(voice_path)]
            /\ UNCHANGED calls
    /\ Goto(j, "u08")
    /\ UNCHANGED <<now, probeVars, req, posts, delivered, registryVars, notifierVars>>

\* audio_path = voice_path; if request_data.get("backgroundMusic"): mix, and
\* if mix_success: audio_path = mixed_path
AddBackgroundMusic(j) ==
    /\ pc[j] = "mix"
    /\ LET voice_path == The(loc[j].voice_path) IN
       IF req[j].backgroundMusic # None
       THEN \E out \in MixOutcomes(voice_path) :
               /\ loc' = [loc EXCEPT
                         ![j].audio_path = Some(IF out[1] THEN out[2] ELSE voice_path),
                         ![j].background_music_id = IF out[1] THEN out[3] ELSE None]
               /\ Called(j, "mix", out[1])
       ELSE /\ loc' = [loc EXCEPT ![j].audio_path = Some(voice_path)]
            /\ UNCHANGED calls
    /\ Goto(j, "u08")
    /\ UNCHANGED <<now, probeVars, req, posts, delivered, registryVars, notifierVars>>

\* story_id = await StoryRepository.create_story(...); if not story_id: failed
CreateStory(j) ==
    /\ pc[j] = "create_story"
    /\ \E story_id \in {None, Some("story-1")} :
          /\ loc' = [loc EXCEPT ![j].story_id = story_id]
          /\ Called(j, "create_story", story_id # None)
          /\ IF story_id = None
             THEN /\ MarkFailed(j, "Failed to store story in database")
                  /\ Goto(j, "notify")
             ELSE /\ Goto(j, "u09")
                  /\ UNCHANGED registryVars
    /\ UNCHANGED <<now, probeVars, req, posts, delivered, notifierVars>>

\* add_story_characters, add_story_images: both return a bool that is not read
StoreCharactersAndImages(j) ==
    /\ pc[j] = "store_related"
    /\ Called(j, "store_related", TRUE)
    /\ Goto(j, "complete")
    /\ UNCHANGED <<now, probeVars, req, loc, posts, delivered, registryVars, notifierVars>>

\* Mutant: the result points at the speech file, not at the audio that was stored
StoryResult_VoicePath(l) ==
    [success |-> TRUE, storyId |-> The(l.story_id), title |-> The(l.title),
     textContent |-> StoryText, audioUrl |-> AudioUrl(The(l.voice_path)),
     duration |-> DurationSeconds]

\* result = {"success": True, "storyId": ..., ...}
StoryResult(l) ==
    [success |-> TRUE, storyId |-> The(l.story_id), title |-> The(l.title),
     textContent |-> StoryText, audioUrl |-> AudioUrl(The(l.audio_path)),
     duration |-> DurationSeconds]

\* Mutant: the task takes the credit itself when it completes the job
Complete_TakesCredit(j) ==
    /\ pc[j] = "complete"
    /\ MarkCompleted(j, StoryResult(loc[j]))
    /\ Goto(j, "notify")
    /\ profile' = decrement_story_credits(profile).row
    /\ UNCHANGED <<now, caption_call, response, caller, sync, answer, bcast, update_call,
                   estimate, post_call, handler, limiterVars,
                   req, loc, calls, posts, delivered, notifierVars>>

Complete(j) ==
    /\ pc[j] = "complete"
    /\ MarkCompleted(j, StoryResult(loc[j]))
    /\ Goto(j, "notify")
    /\ UNCHANGED <<now, probeVars, req, loc, calls, posts, delivered, notifierVars>>

---------------------------------------------------------------------------
(* Webhook Dispatcher *)

WebhookPayload(status) ==
    [request_id |-> status.request_id, status |-> status.status,
     result |-> status.result, error |-> status.error,
     completed_at |-> status.updated_at]

\* Mutant: the webhook is sent without looking at callback_url
SendWebhook_NoCallbackCheck(j) ==
    /\ pc[j] = "notify"
    /\ posts' = [posts EXCEPT ![j] = Append(@, WebhookPayload(webhook_statuses[j]))]
    /\ Goto(j, "posting")
    /\ UNCHANGED <<now, probeVars, req, loc, calls, delivered, registryVars, notifierVars>>

\* if callback_url: await send_completion_webhook(callback_url, webhook_statuses[id])
\* up to the POST; without a callback URL the task returns
SendWebhook(j) ==
    /\ pc[j] = "notify"
    /\ IF req[j].callback_url # None
       THEN /\ posts' = [posts EXCEPT ![j] = Append(@, WebhookPayload(webhook_statuses[j]))]
            /\ Goto(j, "posting")
            /\ UNCHANGED loc
       ELSE /\ Goto(j, "done")
            /\ loc' = [loc EXCEPT ![j] = NoLocals]
            /\ UNCHANGED posts
    /\ UNCHANGED <<now, probeVars, req, calls, delivered, registryVars, notifierVars>>

\* What the POST does: a response with an HTTP status, or an exception
\* (timeout, transport error)
StatusCodes == {200, 201, 202, 204, 301, 404, 500}
PostOutcomes ==
    {[raised |-> FALSE, status_code |-> s] : s \in StatusCodes} \cup
    {[raised |-> TRUE, status_code |-> 0]}

\* The value send_completion_webhook returns for what the POST did
send_completion_webhook(outcome) ==
    IF outcome.raised THEN FALSE ELSE outcome.status_code \in {200, 201, 202, 204}

\* Mutant: an exception of the POST leaves send_completion_webhook and is caught by
\* the except clause of the task, which marks the job failed and sends again
WebhookResponse_Raises(j) ==
    /\ pc[j] = "posting"
    /\ \E outcome \in PostOutcomes :
          /\ delivered' = [delivered EXCEPT ![j] = Some(send_completion_webhook(outcome))]
          /\ IF outcome.raised /\ Len(posts[j]) = 1
             THEN /\ MarkFailed(j, "timed out")
                  /\ Goto(j, "notify")
                  /\ UNCHANGED loc
             ELSE /\ Goto(j, "done")
                  /\ loc' = [loc EXCEPT ![j] = NoLocals]
                  /\ UNCHANGED registryVars
    /\ UNCHANGED <<now, probeVars, req, calls, posts, notifierVars>>

\* Mutant: a delivery that failed is tried once more
WebhookResponse_Retries(j) ==
    /\ pc[j] = "posting"
    /\ \E outcome \in PostOutcomes :
          /\ delivered' = [delivered EXCEPT ![j] = Some(send_completion_webhook(outcome))]
          /\ IF ~send_completion_webhook(outcome) /\ Len(posts[j]) = 1
             THEN /\ Goto(j, "notify")
                  /\ UNCHANGED loc
             ELSE /\ Goto(j, "done")
                  /\ loc' = [loc EXCEPT ![j] = NoLocals]
    /\ UNCHANGED <<now, probeVars, req, calls, posts, registryVars, notifierVars>>

\* The POST has answered or raised: send_completion_webhook returns and the task ends
WebhookResponse(j) ==
    /\ pc[j] = "posting"
    /\ \E outcome \in PostOutcomes :
          delivered' = [delivered EXCEPT ![j] = Some(send_completion_webhook(outcome))]
    /\ Goto(j, "done")
    /\ loc' = [loc EXCEPT ![j] = NoLocals]
    /\ UNCHANGED <<now, probeVars, req, calls, posts, registryVars, notifierVars>>

process_story_generation_async(j) ==
    \/ Start(j)
    \/ ImportServices(j)
    \/ UpdateProgress(j)
    \/ StoreImages(j)
    \/ AnalyzeImages(j)
    \/ GenerateStory(j)
    \/ GenerateTitle(j)
    \/ GenerateSpeech(j)
    \/ AddBackgroundMusic(j)
    \/ CreateStory(j)
    \/ StoreCharactersAndImages(j)
    \/ Complete(j)
    \/ SendWebhook(j)
    \/ WebhookResponse(j)

---------------------------------------------------------------------------
(* Realtime Notifier: ConnectionManager *)

IsActive(c) ==
    /\ c[1] \in DOMAIN active_connections
    /\ c \in active_connections[c[1]]

\* Mutant: every connect starts the user's set of request ids afresh, also when
\* the user has other connections open
connect_ResetsUserSet(c) ==
    /\ ~IsActive(c)
    /\ LET user_id == c[1] IN
       /\ active_connections' =
             IF user_id \in DOMAIN active_connections
             THEN [active_connections EXCEPT ![user_id] = @ \cup {c}]
             ELSE active_connections @@ (user_id :> {c})
       /\ user_subscriptions' = (user_id :> {}) @@ user_subscriptions
       /\ request_subscriptions' = (c :> {}) @@ request_subscriptions
    /\ UNCHANGED <<now, probeVars, registryVars, jobVars, outbox>>

\* ConnectionManager.connect
connect(c) ==
    /\ ~IsActive(c)
    /\ LET user_id == c[1] IN
       /\ active_connections' =
             IF user_id \in DOMAIN active_connections
             THEN [active_connections EXCEPT ![user_id] = @ \cup {c}]
             ELSE active_connections @@ (user_id :> {c})
       /\ user_subscriptions' =
             IF user_id \in DOMAIN active_connections
             THEN user_subscriptions
             ELSE (user_id :> {}) @@ user_subscriptions
       /\ request_subscriptions' = (c :> {}) @@ request_subscriptions
    /\ UNCHANGED <<now, probeVars, registryVars, jobVars, outbox>>

Remove(f, k) == [x \in DOMAIN f \ {k} |-> f[x]]

\* ConnectionManager.disconnect
disconnect(c) ==
    /\ IsActive(c)
    /\ LET user_id == c[1] IN
       /\ active_connections' =
             IF active_connections[user_id] = {c}
             THEN Remove(active_connections, user_id)
             ELSE [active_connections EXCEPT ![user_id] = @ \ {c}]
       /\ request_subscriptions' = Remove(request_subscriptions, c)
    /\ owed' = {p \in owed : p[1] # c}
    /\ UNCHANGED <<now, probeVars, webhook_statuses, history, jobVars, user_subscriptions, outbox>>

\* ConnectionManager.subscribe, on a "subscribe" message of connection c
subscribe(c, request_id) ==
    /\ IsActive(c)
    /\ LET user_id == c[1] IN
       /\ request_subscriptions' =
             IF c \in DOMAIN request_subscriptions
             THEN [request_subscriptions EXCEPT ![c] = @ \cup {request_id}]
             ELSE request_subscriptions
       /\ user_subscriptions' =
             IF user_id \in DOMAIN user_subscriptions
             THEN [user_subscriptions EXCEPT ![user_id] = @ \cup {request_id}]
             ELSE user_subscriptions
    /\ UNCHANGED <<now, probeVars, registryVars, jobVars, active_connections, outbox>>

\* Mutant: the id leaves the user-level set without a look at the user's other connections
unsubscribe_AlwaysDiscards(c, request_id) ==
    /\ IsActive(c)
    /\ LET user_id == c[1] IN
       /\ request_subscriptions' =
             IF c \in DOMAIN request_subscriptions
             THEN [request_subscriptions EXCEPT ![c] = @ \ {request_id}]
             ELSE request_subscriptions
       /\ user_subscriptions' =
             IF user_id \in DOMAIN user_subscriptions
             THEN [user_subscriptions EXCEPT ![user_id] = @ \ {request_id}]
             ELSE user_subscriptions
    /\ owed' = owed \ {<<c, request_id>>}
    /\ UNCHANGED <<now, probeVars, webhook_statuses, history, jobVars, active_connections, outbox>>

\* ConnectionManager.unsubscribe, on an "unsubscribe" message of connection c
unsubscribe(c, request_id) ==
    /\ IsActive(c)
    /\ LET user_id == c[1]
           still_subscribed ==
               /\ user_id \in DOMAIN active_connections
               /\ \E conn_id \in active_connections[user_id] :
                     /\ conn_id # c
                     /\ conn_id \in DOMAIN request_subscriptions
                     /\ request_id \in request_subscriptions[conn_id]
       IN
       /\ request_subscriptions' =
             IF c \in DOMAIN request_subscriptions
             THEN [request_subscriptions EXCEPT ![c] = @ \ {request_id}]
             ELSE request_subscriptions
       /\ user_subscriptions' =
             IF ~still_subscribed /\ user_id \in DOMAIN user_subscriptions
             THEN [user_subscriptions EXCEPT ![user_id] = @ \ {request_id}]
             ELSE user_subscriptions
    /\ owed' = owed \ {<<c, request_id>>}
    /\ UNCHANGED <<now, probeVars, webhook_statuses, history, jobVars, active_connections, outbox>>

---------------------------------------------------------------------------
(* Realtime Notifier: broadcast_to_subscribers and broadcast_to_user *)

\* No broadcast has been called
NoBroadcast ==
    [state |-> "idle", kind |-> "none", key |-> 0,
     users_used |-> 0, users_seen |-> {}, user |-> None,
     conns_used |-> 0, conns_seen |-> {}, sending |-> None, attempts |-> <<>>]

\* self.active_connections.get(user_id, {}), as the set of its connection ids
ConnectionsOf(user_id) ==
    IF user_id \in DOMAIN active_connections THEN active_connections[user_id] ELSE {}

\* self.request_subscriptions.get(connection_id, set())
SubscriptionsOf(c) ==
    IF c \in DOMAIN request_subscriptions THEN request_subscriptions[c] ELSE {}

\* The message of a broadcast: status_update for a request, story_completed for a user
Message(kind, key) ==
    [type |-> IF kind = "subscribers" THEN "status_update" ELSE "story_completed",
     key |-> key]

\* No broadcast call is in progress
NotBroadcasting == bcast.state = "idle"

\* The broadcast is suspended inside await websocket.send_json: the event loop
\* can run other handlers
Suspended == bcast.state = "running" /\ bcast.sending # None

\* send_status_update(request_id, ...): broadcast_to_subscribers is entered and
\* the iterator over self.user_subscriptions.items() is created
broadcast_to_subscribers(request_id) ==
    /\ NotBroadcasting
    /\ bcast' = [NoBroadcast EXCEPT
                   !.state = "running", !.kind = "subscribers", !.key = request_id,
                   !.users_used = Cardinality(DOMAIN user_subscriptions)]
    /\ UNCHANGED <<now, caption_call, response, caller, sync, answer, update_call,
                   registryVars, jobVars, notifierVars,
                   extraVars>>

\* send_story_completed(user_id, ...): broadcast_to_user is entered; with the
\* user in active_connections the iterator over the user's connections is created
broadcast_to_user(user_id) ==
    /\ NotBroadcasting
    /\ bcast' =
          IF user_id \in DOMAIN active_connections
          THEN [NoBroadcast EXCEPT
                   !.state = "running", !.kind = "user", !.key = user_id,
                   !.user = Some(user_id),
                   !.conns_used = Cardinality(active_connections[user_id])]
          ELSE [NoBroadcast EXCEPT
                   !.state = "returned", !.kind = "user", !.key = user_id]
    /\ UNCHANGED <<now, caption_call, response, caller, sync, answer, update_call,
                   registryVars, jobVars, notifierVars,
                   extraVars>>

\* for user_id, subscriptions in self.user_subscriptions.items(): the next step
\* of the iterator. It raises RuntimeError when the dict has changed size since
\* the iterator was created; the exception leaves broadcast_to_subscribers
NextUser ==
    /\ bcast.state = "running"
    /\ bcast.kind = "subscribers"
    /\ bcast.user = None
    /\ bcast.sending = None
    /\ IF Cardinality(DOMAIN user_subscriptions) # bcast.users_used
       THEN bcast' = [bcast EXCEPT !.state = "raised"]
       ELSE IF DOMAIN user_subscriptions \ bcast.users_seen = {}
       THEN bcast' = [bcast EXCEPT !.state = "returned"]
       ELSE \E user_id \in DOMAIN user_subscriptions \ bcast.users_seen :
               bcast' =
                  IF bcast.key \in user_subscriptions[user_id]
                  THEN [bcast EXCEPT
                           !.users_seen = @ \cup {user_id},
                           !.user = Some(user_id),
                           !.conns_used = Cardinality(ConnectionsOf(user_id)),
                           !.conns_seen = {}]
                  ELSE [bcast EXCEPT !.users_seen = @ \cup {user_id}]
    /\ UNCHANGED <<now, caption_call, response, caller, sync, answer, update_call,
                   registryVars, jobVars, notifierVars,
                   extraVars>>

\* Mutant: every connection of a subscribed user is sent the message
NextConnection_AllOfUser ==
    /\ bcast.state = "running"
    /\ bcast.user # None
    /\ bcast.sending = None
    /\ LET user_id == The(bcast.user)
           live == ConnectionsOf(user_id)
       IN
       IF Cardinality(live) # bcast.conns_used
       THEN bcast' = [bcast EXCEPT !.state = "raised"]
       ELSE IF live \ bcast.conns_seen = {}
       THEN bcast' = [bcast EXCEPT
                         !.user = None,
                         !.state = IF bcast.kind = "user" THEN "returned" ELSE @]
       ELSE \E c \in live \ bcast.conns_seen :
               bcast' =
                  IF TRUE
                  THEN [bcast EXCEPT !.conns_seen = @ \cup {c}, !.sending = Some(c)]
                  ELSE [bcast EXCEPT !.conns_seen = @ \cup {c}]
    /\ UNCHANGED <<now, caption_call, response, caller, sync, answer, update_call,
                   registryVars, jobVars, notifierVars,
                   extraVars>>

\* Mutant: the per-connection subscription test is applied to broadcast_to_user too
NextConnection_OnlySubscribed ==
    /\ bcast.state = "running"
    /\ bcast.user # None
    /\ bcast.sending = None
    /\ LET user_id == The(bcast.user)
           live == ConnectionsOf(user_id)
       IN
       IF Cardinality(live) # bcast.conns_used
       THEN bcast' = [bcast EXCEPT !.state = "raised"]
       ELSE IF live \ bcast.conns_seen = {}
       THEN bcast' = [bcast EXCEPT
                         !.user = None,
                         !.state = IF bcast.kind = "user" THEN "returned" ELSE @]
       ELSE \E c \in live \ bcast.conns_seen :
               bcast' =
                  IF bcast.key \in SubscriptionsOf(c)
                  THEN [bcast EXCEPT !.conns_seen = @ \cup {c}, !.sending = Some(c)]
                  ELSE [bcast EXCEPT !.conns_seen = @ \cup {c}]
    /\ UNCHANGED <<now, caption_call, response, caller, sync, answer, update_call,
                   registryVars, jobVars, notifierVars,
                   extraVars>>

\* for connection_id, websocket in <the user's connections>.items(): the next
\* step of the iterator, with the same RuntimeError. broadcast_to_subscribers
\* sends only to a connection whose own subscription set holds the request id
NextConnection ==
    /\ bcast.state = "running"
    /\ bcast.user # None
    /\ bcast.sending = None
    /\ LET user_id == The(bcast.user)
           live == ConnectionsOf(user_id)
       IN
       IF Cardinality(live) # bcast.conns_used
       THEN bcast' = [bcast EXCEPT !.state = "raised"]
       ELSE IF live \ bcast.conns_seen = {}
       THEN bcast' = [bcast EXCEPT
                         !.user = None,
                         !.state = IF bcast.kind = "user" THEN "returned" ELSE @]
       ELSE \E c \in live \ bcast.conns_seen :
               bcast' =
                  IF bcast.kind = "user" \/ bcast.key \in SubscriptionsOf(c)
                  THEN [bcast EXCEPT !.conns_seen = @ \cup {c}, !.sending = Some(c)]
                  ELSE [bcast EXCEPT !.conns_seen = @ \cup {c}]
    /\ UNCHANGED <<now, caption_call, response, caller, sync, answer, update_call,
                   registryVars, jobVars, notifierVars,
                   extraVars>>

\* Mutant: an exception of send_json is not caught and leaves the broadcast
SendReturns_Uncaught ==
    /\ bcast.state = "running"
    /\ bcast.sending # None
    /\ LET c == The(bcast.sending) IN
       \E sent \in IF IsActive(c) THEN BOOLEAN ELSE {FALSE} :
          /\ outbox' = IF sent
                       THEN [outbox EXCEPT ![c] = Append(@, Message(bcast.kind, bcast.key))]
                       ELSE outbox
          /\ bcast' = [bcast EXCEPT
                          !.sending = None,
                          !.state = IF sent THEN @ ELSE "raised",
                          !.attempts = Append(@, [connection |-> c, sent |-> sent])]
    /\ UNCHANGED <<now, caption_call, response, caller, sync, answer, update_call,
                   registryVars, jobVars,
                   active_connections, request_subscriptions, user_subscriptions,
                   extraVars>>

\* try: await websocket.send_json(message); except Exception: log. The send
\* reaches the client or raises (always for a socket closed meanwhile); either
\* way the loop goes on
SendReturns ==
    /\ bcast.state = "running"
    /\ bcast.sending # None
    /\ LET c == The(bcast.sending) IN
       \E sent \in IF IsActive(c) THEN BOOLEAN ELSE {FALSE} :
          /\ outbox' = IF sent
                       THEN [outbox EXCEPT ![c] = Append(@, Message(bcast.kind, bcast.key))]
                       ELSE outbox
          /\ bcast' = [bcast EXCEPT
                          !.sending = None,
                          !.attempts = Append(@, [connection |-> c, sent |-> sent])]
    /\ UNCHANGED <<now, caption_call, response, caller, sync, answer, update_call,
                   registryVars, jobVars,
                   active_connections, request_subscriptions, user_subscriptions,
                   extraVars>>

\* The call is over: it has returned None to its caller, or the exception has
\* left it, and its frame is gone
BroadcastEnds ==
    /\ bcast.state \in {"returned", "raised"}
    /\ bcast' = NoBroadcast
    /\ outbox' = [c \in ConnectionIds |-> <<>>]
    /\ UNCHANGED <<now, caption_call, response, caller, sync, answer, update_call,
                   registryVars, jobVars,
                   active_connections, request_subscriptions, user_subscriptions,
                   extraVars>>

---------------------------------------------------------------------------
(* Captioning: image_service.img2text and analyze_multiple_images *)

MaxImages == 3

\* What happens to one image inside img2text:
\*   "caption"            the model returns a generated text
\*   "no_text"            the model returns an empty result
\*   "adapter_error"      the download, the decoding or the model raises (inside the try)
\*   "model_unavailable"  initialize_model raises (before the try)
ImageOutcomes == {"caption", "no_text", "adapter_error", "model_unavailable"}

\* The image sources of a request with n images
ImageSources(n) == [i \in 1..n |-> "image-" \o ToString(i)]

\* result[0]["generated_text"] for that image
GeneratedText(image_source) == "a picture of " \o image_source

\* img2text: the text it returns, or raised when the exception leaves it
img2text(image_source, outcome) ==
    CASE outcome = "model_unavailable" ->
            [raised |-> TRUE, text |-> ""]
      [] outcome = "adapter_error" ->
            [raised |-> FALSE, text |-> "An image that could not be processed."]
      [] outcome = "no_text" ->
            [raised |-> FALSE, text |-> "An image without a clear description."]
      [] outcome = "caption" ->
            [raised |-> FALSE, text |-> GeneratedText(image_source)]

\* analyze_multiple_images: one scenario per image source, in the order of the sources
RECURSIVE analyze_multiple_images(_, _)
analyze_multiple_images(image_sources, outcomes) ==
    IF image_sources = <<>>
    THEN <<>>
    ELSE LET r == img2text(Head(image_sources), Head(outcomes))
             scenario == IF r.raised THEN "An image that could not be analyzed."
                                     ELSE r.text
         IN <<scenario>> \o analyze_multiple_images(Tail(image_sources), Tail(outcomes))

\* The batches analyze_multiple_images is called with: 1 .. MaxImages images, each
\* with what happens to it
CaptionBatches ==
    UNION {[1..n -> ImageOutcomes] : n \in 1..MaxImages}

\* scenarios = await analyze_multiple_images(request_data["images"])
AnalyzeBatch ==
    /\ caption_call.scenarios = None
    /\ caption_call.outcomes # <<>>
    /\ caption_call' = [caption_call EXCEPT !.scenarios =
           Some(analyze_multiple_images(ImageSources(Len(caption_call.outcomes)),
                                        caption_call.outcomes))]
    /\ UNCHANGED <<now, response, caller, sync, answer, bcast, update_call, registryVars, jobVars, notifierVars,
                   extraVars>>

---------------------------------------------------------------------------
(* POST /api/stories/generate *)

\* StoryGenerationResponse(success=False, error=...)
ErrorResponse(error) ==
    [success |-> FALSE, storyId |-> None, title |-> None, textContent |-> None,
     audioUrl |-> None, duration |-> None, error |-> Some(error)]

\* StoryGenerationResponse(success=True, storyId=..., ...)
StoryResponse(story_id, title, audio_path) ==
    [success |-> TRUE, storyId |-> Some(story_id), title |-> Some(title),
     textContent |-> Some(StoryText), audioUrl |-> Some(AudioUrl(audio_path)),
     duration |-> Some(DurationSeconds), error |-> None]

\* What the collaborators do during one call of the handler: whether the images
\* are stored, what generate_story_from_scenarios raises, the title, the reason
\* speech fails for, what the mix returns and the id create_story returns
SyncOutcomes ==
    [stored : BOOLEAN,
     story : {None} \cup {Some(m) : m \in StoryErrors},
     title : {generate_title(language, outcome, pick[1], pick[2]) :
                language \in RequestLanguages, outcome \in TitleOutcomes,
                pick \in TitlePicks},
     speech : {None} \cup {Some(m) : m \in SpeechErrors},
     mix : MixOutcomes(VoicePath),
     story_id : {None, Some("story-1")}]

\* Mutant: the decrement is added to the background tasks before create_story is
\* called, so that it is also scheduled when the story could not be stored
generate_story_run_DecrementsEarly(user, request, o) ==
    LET credits_info == check_user_credits(user)
        features == check_subscription_features(user)
        Reply(stages, error) ==
            [stages |-> stages, tasks |-> <<>>, response |-> Some(ErrorResponse(error))]
        mixed == request.backgroundMusic # None
        audio_path == IF mixed /\ o.mix[1] THEN o.mix[2] ELSE VoicePath
        upto_speech == <<"store_images", "analyze", "story", "title", "speech">>
        upto_create ==
            upto_speech \o (IF mixed THEN <<"mix">> ELSE <<>>) \o <<"create_story">>
    IN
    IF ~credits_info.has_credits
    THEN Reply(<<>>, "Story generation failed: " \o credits_info.reason)
    ELSE IF (request.duration = "long" \/ mixed) /\ ~features.success
    THEN Reply(<<>>, "Failed to check subscription: " \o features.reason)
    ELSE IF request.duration = "long" /\ ~features.long_stories
    THEN Reply(<<>>, "Long stories require a premium subscription")
    ELSE IF mixed /\ ~features.background_music
    THEN Reply(<<>>, "Background music requires a premium subscription")
    ELSE IF ~o.stored
    THEN Reply(<<"store_images">>, "Failed to process images")
    ELSE IF o.story # None
    THEN Reply(<<"store_images", "analyze", "story">>,
               "Story generation failed: " \o The(o.story))
    ELSE IF o.speech # None
    THEN Reply(upto_speech, "Failed to generate speech: " \o The(o.speech))
    ELSE IF o.story_id = None
    THEN [stages |-> upto_create, tasks |-> <<"decrement_story_credits">>,
          response |-> Some(ErrorResponse("Failed to store story in database"))]
    ELSE [stages |-> upto_create \o
                     <<"add_story_characters", "add_story_images", "add_story_tags">>,
          tasks |-> <<"decrement_story_credits">>,
          response |-> Some(StoryResponse(The(o.story_id), o.title, audio_path))]

\* One call of the handler by user with request: the stages it runs, the
\* background tasks it adds and the response it returns
generate_story_run(user, request, o) ==
    LET credits_info == check_user_credits(user)
        features == check_subscription_features(user)
        Reply(stages, error) ==
            [stages |-> stages, tasks |-> <<>>, response |-> Some(ErrorResponse(error))]
        mixed == request.backgroundMusic # None
        audio_path == IF mixed /\ o.mix[1] THEN o.mix[2] ELSE VoicePath
        upto_speech == <<"store_images", "analyze", "story", "title", "speech">>
        upto_create ==
            upto_speech \o (IF mixed THEN <<"mix">> ELSE <<>>) \o <<"create_story">>
    IN
    IF ~credits_info.has_credits
    THEN Reply(<<>>, "Story generation failed: " \o credits_info.reason)
    ELSE IF (request.duration = "long" \/ mixed) /\ ~features.success
    THEN Reply(<<>>, "Failed to check subscription: " \o features.reason)
    ELSE IF request.duration = "long" /\ ~features.long_stories
    THEN Reply(<<>>, "Long stories require a premium subscription")
    ELSE IF mixed /\ ~features.background_music
    THEN Reply(<<>>, "Background music requires a premium subscription")
    ELSE IF ~o.stored
    THEN Reply(<<"store_images">>, "Failed to process images")
    ELSE IF o.story # None
    THEN Reply(<<"store_images", "analyze", "story">>,
               "Story generation failed: " \o The(o.story))
    ELSE IF o.speech # None
    THEN Reply(upto_speech, "Failed to generate speech: " \o The(o.speech))
    ELSE IF o.story_id = None
    THEN Reply(upto_create, "Failed to store story in database")
    ELSE [stages |-> upto_create \o
                     <<"add_story_characters", "add_story_images", "add_story_tags">>,
          tasks |-> <<"decrement_story_credits">>,
          response |-> Some(StoryResponse(The(o.story_id), o.title, audio_path))]

\* No call of the handler yet
NoSync == [stages |-> <<>>, tasks |-> <<>>, response |-> None]

generate_story(user, request) ==
    /\ sync = NoSync
    /\ \E o \in SyncOutcomes : sync' = generate_story_run(user, request, o)
    /\ UNCHANGED <<now, caption_call, response, caller, answer, bcast, update_call,
                   registryVars, jobVars, notifierVars,
                   extraVars>>

---------------------------------------------------------------------------
(* The clock *)

Tick ==
    /\ now < MaxTime
    /\ now' = now + 1
    /\ UNCHANGED <<registryVars, jobVars, notifierVars, probeVars>>

---------------------------------------------------------------------------
(* Specifications *)

\* No call of analyze_multiple_images is looked at
NoCaptionCall == [outcomes |-> <<>>, scenarios |-> None]

\* The process after start-up, with ids the request ids that will be handed out
InitService(ids) ==
    /\ webhook_statuses = <<>>
    /\ now = 0
    /\ pc = [j \in ids |-> "idle"]
    /\ req = [j \in ids |-> NoRequest]
    /\ loc = [j \in ids |-> NoLocals]
    /\ history = [j \in ids |-> <<>>]
    /\ calls = [j \in ids |-> <<>>]
    /\ posts = [j \in ids |-> <<>>]
    /\ delivered = [j \in ids |-> None]
    /\ active_connections = <<>>
    /\ request_subscriptions = <<>>
    /\ user_subscriptions = <<>>
    /\ outbox = [c \in ConnectionIds |-> <<>>]
    /\ owed = {}
    /\ response = None
    /\ sync = NoSync
    /\ answer = [j \in ids |-> None]
    /\ bcast = NoBroadcast
    /\ update_call = NoUpdateCall

\* The calls that are followed on their own, all but those in followed, have not
\* been made
NotFollowed(followed) ==
    /\ IF "estimate" \in followed THEN TRUE ELSE estimate = None
    /\ IF "post_call" \in followed THEN TRUE ELSE post_call = None
    /\ IF "credits" \in followed THEN TRUE ELSE profile = None /\ handler = <<>>
    /\ IF "limiter" \in followed
          THEN TRUE
          ELSE /\ rate_limit_store = <<>>
               /\ clock = 0
               /\ dispatch = <<>>
               /\ cleanup = 0
               /\ passed = <<>>
               /\ opened = <<>>
               /\ arrivals = 0

InitProcess ==
    /\ InitService(RequestIds)
    /\ NotFollowed({})

Init ==
    /\ InitProcess
    /\ caption_call = NoCaptionCall
    /\ caller = None

\* The asynchronous generation endpoint and its background tasks
Next ==
    \/ \E j \in RequestIds : generate_story_webhook(j)
    \/ \E j \in RequestIds : process_story_generation_async(j)

Spec == Init /\ [][Next]_vars

\* A background task that can take a step eventually takes one: every external
\* call returns or raises, and the event loop resumes the task
SpecLive == Spec /\ \A j \in RequestIds : WF_vars(process_story_generation_async(j))

\* The same with the push channel's clients connecting and subscribing
NextPush ==
    \/ Next
    \/ \E c \in ConnectionIds : connect(c)
    \/ \E c \in ConnectionIds : disconnect(c)
    \/ \E c \in ConnectionIds, r \in RequestIds : subscribe(c, r)
    \/ \E c \in ConnectionIds, r \in RequestIds : unsubscribe(c, r)

SpecPush == Init /\ [][NextPush]_vars

\* The steps of a call of one of the two broadcast methods
BroadcastStep ==
    \/ \E request_id \in RequestIds : broadcast_to_subscribers(request_id)
    \/ \E user_id \in UserIds : broadcast_to_user(user_id)
    \/ NextUser
    \/ NextConnection
    \/ SendReturns
    \/ BroadcastEnds

\* The Realtime Notifier alone: clients connect, subscribe, unsubscribe and
\* disconnect, and broadcasts are called; each broadcast runs from its call to
\* its return with no other handler in between
NextNotifier ==
    \/ \E c \in ConnectionIds : NotBroadcasting /\ connect(c)
    \/ \E c \in ConnectionIds : NotBroadcasting /\ disconnect(c)
    \/ \E c \in ConnectionIds, r \in RequestIds : NotBroadcasting /\ subscribe(c, r)
    \/ \E c \in ConnectionIds, r \in RequestIds : NotBroadcasting /\ unsubscribe(c, r)
    \/ BroadcastStep

SpecNotifier == Init /\ [][NextNotifier]_vars

\* The event loop runs other handlers while a broadcast is suspended in a send
SwitchPoint == NotBroadcasting \/ Suspended

NextInterleaved ==
    \/ \E c \in ConnectionIds : SwitchPoint /\ connect(c)
    \/ \E c \in ConnectionIds : SwitchPoint /\ disconnect(c)
    \/ \E c \in ConnectionIds, r \in RequestIds : SwitchPoint /\ subscribe(c, r)
    \/ \E c \in ConnectionIds, r \in RequestIds : SwitchPoint /\ unsubscribe(c, r)
    \/ BroadcastStep

SpecInterleaved == Init /\ [][NextInterleaved]_vars

\* One request to the asynchronous generation endpoint and its background task,
\* followed while the clock that int(time.time()) reads advances
NextTimed ==
    \/ generate_story_webhook(1)
    \/ process_story_generation_async(1)
    \/ Tick

SpecTimed == Init /\ [][NextTimed]_vars

\* One request to the asynchronous generation endpoint and its background task,
\* and clients that poll the status endpoint for any id
NextStatus ==
    \/ generate_story_webhook(1)
    \/ process_story_generation_async(1)
    \/ \E request_id \in RequestIds \cup UnknownIds : get_story_status(request_id)

SpecStatus == Init /\ [][NextStatus]_vars

\* The writer of one entry followed through the lines of update_webhook_status,
\* the clock, and clients that poll the status endpoint whenever the event loop
\* can run their handler
NextRegistry ==
    \/ CreateEntry
    \/ \E arguments \in JobUpdates : BeginUpdate(1, arguments)
    \/ AssignField
    \/ AssignUpdatedAt
    \/ Tick
    \/ \E request_id \in RequestIds \cup UnknownIds :
          HandlerCanRun /\ get_story_status(request_id)

SpecRegistry == Init /\ [][NextRegistry]_vars

\* analyze_multiple_images alone, called once with any batch
InitCaptions ==
    /\ InitProcess
    /\ \E batch \in CaptionBatches :
          caption_call = [outcomes |-> batch, scenarios |-> None]
    /\ caller = None

SpecCaptions == InitCaptions /\ [][AnalyzeBatch]_vars

\* One caller, any row of the users table and any request, who sends the request
\* to both generation endpoints; the background task of the accepted request runs
InitAdmission ==
    /\ InitProcess
    /\ caption_call = NoCaptionCall
    /\ \E user \in Users, request \in Requests :
          caller = Some([user |-> user, request |-> request])

CallerPostsWebhook ==
    /\ pc[1] = "idle"
    /\ generate_story_webhook_call(1, The(caller).user, The(caller).request)
    /\ UNCHANGED <<now, caption_call, response, caller, sync, bcast, update_call,
                   loc, calls, posts, delivered, owed, notifierVars,
                   extraVars>>

CallerPostsGenerate ==
    generate_story(The(caller).user, The(caller).request)

NextAdmission ==
    \/ CallerPostsWebhook
    \/ CallerPostsGenerate
    \/ process_story_generation_async(1)

SpecAdmission == InitAdmission /\ [][NextAdmission]_vars

---------------------------------------------------------------------------
(* Properties of the Generation Job and the Job Status Registry *)

Jobs == DOMAIN webhook_statuses
Terminal(status) == status \in {"completed", "failed"}
StatusOf(j) == webhook_statuses[j].status

\* C1: in every reachable registry state, a job whose status is completed has
\* progress 1.0, a result present and no error.
C1_CompletedHasResult ==
    \A j \in Jobs :
        StatusOf(j) = "completed" =>
            /\ webhook_statuses[j].progress = 10
            /\ webhook_statuses[j].result # None
            /\ webhook_statuses[j].error = None

C1_Witness ==
    \E j \in Jobs : StatusOf(j) = "completed" /\ pc[j] = "notify"

\* C2: in every reachable registry state, a job whose status is failed has no
\* result, an error present and progress 0.0, whatever made it fail.
C2_FailedHasError ==
    \A j \in Jobs :
        StatusOf(j) = "failed" =>
            /\ webhook_statuses[j].result = None
            /\ webhook_statuses[j].error # None
            /\ webhook_statuses[j].progress = 0

\* A job failed by a raised exception and one failed by a stage's return value
C2_Witness ==
    \E j \in Jobs :
        /\ StatusOf(j) = "failed"
        /\ pc[j] = "done"
        /\ webhook_statuses[j].error \in
              {Some(""), Some("Failed to store story in database")}

\* C3: no job has both a result and an error, and a job in pending or processing
\* has neither.
C3_ResultErrorExclusive ==
    \A j \in Jobs :
        /\ ~(webhook_statuses[j].result # None /\ webhook_statuses[j].error # None)
        /\ StatusOf(j) \in {"pending", "processing"} =>
              /\ webhook_statuses[j].result = None
              /\ webhook_statuses[j].error = None

\* A job about to be completed, and one whose webhook has been answered
C3_Witness ==
    \E j \in Jobs :
        \/ StatusOf(j) = "processing" /\ pc[j] = "complete"
        \/ StatusOf(j) = "completed" /\ delivered[j] = Some(FALSE)

\* C4: once a job's status is completed or failed, its status, progress, result
\* and error never change again and no further registry update is issued for it.
C4_TerminalIsFinal ==
    [][\A j \in Jobs :
          Terminal(StatusOf(j)) =>
              /\ webhook_statuses'[j].status = webhook_statuses[j].status
              /\ webhook_statuses'[j].progress = webhook_statuses[j].progress
              /\ webhook_statuses'[j].result = webhook_statuses[j].result
              /\ webhook_statuses'[j].error = webhook_statuses[j].error
              /\ history'[j] = history[j]]_vars

\* A job in a terminal state whose task has gone on to its end
C4_Witness ==
    \E j \in Jobs : Terminal(StatusOf(j)) /\ pc[j] = "done" /\ Len(posts[j]) = 1

\* C5: across the successive registry updates of one job, progress never
\* decreases except on the single update that moves the job into failed, where
\* it becomes 0.0.
C5_ProgressMonotone ==
    \A j \in RequestIds :
        /\ \A i \in 1..(Len(history[j]) - 1) :
              \/ history[j][i + 1][2] >= history[j][i][2]
              \/ /\ history[j][i + 1] = <<"failed", 0>>
                 /\ history[j][i][1] # "failed"
        /\ Cardinality({i \in DOMAIN history[j] : history[j][i][1] = "failed"}) <= 1

\* A job that failed after its progress had reached 0.8
C5_Witness ==
    \E j \in RequestIds :
        /\ Len(history[j]) > 2
        /\ history[j][Len(history[j])] = <<"failed", 0>>
        /\ history[j][Len(history[j]) - 1] = <<"processing", 8>>

\* C6: a job created with a callback URL gets exactly one webhook POST, issued
\* only once the registry shows the terminal state and carrying that status
\* with the job's result and error; a job created without one gets no POST.
C6_OneWebhookPerJob ==
    \A j \in RequestIds :
        /\ Len(posts[j]) <= 1
        /\ req[j].callback_url = None => posts[j] = <<>>
        /\ posts[j] # <<>> =>
              /\ j \in Jobs
              /\ Terminal(StatusOf(j))
              /\ posts[j][1].request_id = j
              /\ posts[j][1].status = StatusOf(j)
              /\ posts[j][1].result = webhook_statuses[j].result
              /\ posts[j][1].error = webhook_statuses[j].error
        /\ (pc[j] = "done" /\ req[j].callback_url # None) => Len(posts[j]) = 1

C6_Witness ==
    \E j \in Jobs :
        /\ pc[j] = "done"
        /\ req[j].callback_url # None
        /\ Len(posts[j]) = 1
        /\ posts[j][1].status = "completed"

\* C7: a failed webhook delivery leaves the job's registry entry unchanged, is
\* not retried and raises nothing into the Generation Job: the task ends there.
C7_FailedDeliveryIsSwallowed ==
    [][\A j \in RequestIds :
          /\ (pc[j] = "posting" /\ pc'[j] # "posting" /\ delivered'[j] = Some(FALSE)) =>
                /\ webhook_statuses' = webhook_statuses
                /\ history' = history
                /\ posts' = posts
                /\ pc'[j] = "done"
          /\ pc[j] = "done" => (pc'[j] = "done" /\ posts'[j] = posts[j])]_vars

C7_Witness ==
    \E j \in Jobs : pc[j] = "done" /\ delivered[j] = Some(FALSE) /\ Len(posts[j]) = 1

\* C8: after every registry update the Generation Job makes to a job, a
\* status_update event for that job is sent to every connection subscribed to
\* it: when the task has ended, no subscribed connection is still owed one.
C8_UpdatesArePushed ==
    \A j \in RequestIds :
        pc[j] = "done" => ~(\E c \in ConnectionIds : <<c, j>> \in owed)

\* C9: every job whose pipeline has been started eventually reaches completed
\* or failed.
C9_EveryJobTerminates ==
    \A j \in RequestIds :
        (pc[j] = "scheduled") ~> (j \in Jobs /\ Terminal(StatusOf(j)))

C9_Witness ==
    \E j \in Jobs : Terminal(StatusOf(j)) /\ Len(history[j]) = 11

\* C10: if image storage, captioning, narrative, title, speech, mixing (when
\* music was requested) and persistence all succeed, the job ends in completed
\* with its result populated and never passes through failed.
StageSucceeded(j, stage) ==
    \E i \in DOMAIN calls[j] : calls[j][i].stage = stage /\ calls[j][i].ok

AllStagesSucceeded(j) ==
    /\ \A stage \in {"store_images", "analyze", "story", "title", "speech",
                     "create_story", "store_related"} : StageSucceeded(j, stage)
    /\ req[j].backgroundMusic # None => StageSucceeded(j, "mix")

PipelineTitles ==
    {generate_title(l, o, p[1], p[2]) :
        l \in RequestLanguages, o \in TitleOutcomes, p \in TitlePicks}

C10_SuccessCompletes ==
    \A j \in Jobs :
        AllStagesSucceeded(j) =>
            /\ \A i \in DOMAIN history[j] : history[j][i][1] # "failed"
            /\ pc[j] \in {"notify", "posting", "done"} =>
                  /\ StatusOf(j) = "completed"
                  /\ \E r \in webhook_statuses[j].result :
                        /\ r.storyId = "story-1"
                        /\ r.title \in PipelineTitles
                        /\ r.textContent = StoryText
                        /\ r.audioUrl \in {AudioUrl(VoicePath), AudioUrl(MixedPath)}
                        /\ r.duration = DurationSeconds
                        /\ pc[j] = "notify" =>
                              /\ r.storyId = The(loc[j].story_id)
                              /\ r.title = The(loc[j].title)
                              /\ r.audioUrl = AudioUrl(The(loc[j].audio_path))

\* A finished job whose speech was mixed with the requested music
C10_Witness ==
    \E j \in Jobs :
        /\ AllStagesSucceeded(j)
        /\ pc[j] = "done"
        /\ req[j].backgroundMusic # None
        /\ \E r \in webhook_statuses[j].result : r.audioUrl = AudioUrl(MixedPath)

\* C11: an exception raised inside a pipeline stage is caught by the Generation
\* Job: the job is failed with the exception's message as its error and progress
\* 0.0, no later stage runs, and the task never ends outside a terminal state.
StageRaised(j) ==
    {i \in DOMAIN calls[j] : calls[j][i].raised # None}

C11_ExceptionsBecomeFailed ==
    \A j \in RequestIds :
        /\ \A i \in StageRaised(j) :
              /\ i = Len(calls[j])
              /\ j \in Jobs
              /\ StatusOf(j) = "failed"
              /\ webhook_statuses[j].error = calls[j][i].raised
              /\ webhook_statuses[j].progress = 0
              /\ pc[j] \in {"notify", "posting", "done"}
        /\ pc[j] = "done" => (j \in Jobs /\ Terminal(StatusOf(j)))

\* The story-body generation has raised and the task has run to its end
C11_Witness ==
    \E j \in Jobs :
        /\ pc[j] = "done"
        /\ \E i \in StageRaised(j) :
              /\ calls[j][i].stage = "story"
              /\ calls[j][i].raised = Some("Failed to generate story: upstream error")

\* The calls of job j to the given stage that reported failure
StageFailed(j, stage) ==
    {i \in DOMAIN calls[j] : calls[j][i].stage = stage /\ ~calls[j][i].ok}

NeverCompleted(j) ==
    \A i \in DOMAIN history[j] : history[j][i][1] # "completed"

\* C12: when storing the images fails (no image was stored), the job is failed
\* with error "Failed to process images" and progress 0.0, and no later stage
\* (captioning, narrative, speech, mixing, persistence) is executed for it.
C12_ImageFailureStopsJob ==
    \A j \in RequestIds :
        \A i \in StageFailed(j, "store_images") :
            /\ i = Len(calls[j])
            /\ j \in Jobs
            /\ StatusOf(j) = "failed"
            /\ webhook_statuses[j].error = Some("Failed to process images")
            /\ webhook_statuses[j].progress = 0
            /\ pc[j] \in {"notify", "posting", "done"}

C12_Witness ==
    \E j \in Jobs : pc[j] = "done" /\ StageFailed(j, "store_images") # {}

\* C13: when speech synthesis reports failure the job is failed with an error
\* that starts with "Failed to generate speech: ", and when persistence returns
\* no story id it is failed with "Failed to store story in database"; in both
\* cases no later stage runs and the job never becomes completed.
C13_SpeechAndPersistenceFailures ==
    \A j \in RequestIds :
        /\ \A i \in StageFailed(j, "speech") :
              /\ i = Len(calls[j])
              /\ StatusOf(j) = "failed"
              /\ webhook_statuses[j].error \in
                    {Some("Failed to generate speech: " \o r) : r \in SpeechErrors}
              /\ NeverCompleted(j)
              /\ pc[j] \in {"notify", "posting", "done"}
        /\ \A i \in StageFailed(j, "create_story") :
              /\ i = Len(calls[j])
              /\ StatusOf(j) = "failed"
              /\ webhook_statuses[j].error = Some("Failed to store story in database")
              /\ NeverCompleted(j)
              /\ pc[j] \in {"notify", "posting", "done"}

\* A finished job whose speech failed, or whose story could not be stored
C13_Witness ==
    \E j \in Jobs :
        /\ pc[j] = "done"
        /\ \/ /\ StageFailed(j, "speech") # {}
              /\ webhook_statuses[j].error =
                    Some("Failed to generate speech: Failed to upload audio file")
           \/ /\ StageFailed(j, "create_story") # {}
              /\ StageSucceeded(j, "speech")

\* C14: a failed title-generation call (an exception or an answer other than a
\* usable 200) never fails the job: generate_title returns "Adjective Noun" with
\* both words from the fallback lists of the requested language (the English
\* lists for a language that has none), and the pipeline goes on to speech.
Words(list) == {list[i] : i \in DOMAIN list}

FallbackTitles(lang) ==
    {adj \o " " \o noun : adj \in Words(adjectives[lang]), noun \in Words(nouns[lang])}

FallbackTitleIsAdjectiveNoun ==
    \A language \in Languages \cup {"spanish"} :
        \A outcome \in {o \in TitleOutcomes : ~TitleCallSucceeded(o)} :
            \A a \in DOMAIN adjectives["english"], n \in DOMAIN nouns["english"] :
                generate_title(language, outcome, a, n) \in
                    FallbackTitles(IF language \in Languages THEN language ELSE "english")

C14_TitleFailureIsNotFatal ==
    /\ FallbackTitleIsAdjectiveNoun
    /\ \A j \in RequestIds :
          \A i \in StageFailed(j, "title_api") :
              /\ i < Len(calls[j])
              /\ calls[j][i + 1].stage = "title" /\ calls[j][i + 1].ok
              /\ pc[j] = "u06" =>
                    /\ StatusOf(j) = "processing"
                    /\ loc[j].title \subseteq FallbackTitles(The(loc[j].language))
                    /\ loc[j].title # None
              /\ StatusOf(j) = "failed" =>
                    StageFailed(j, "speech") \cup StageFailed(j, "create_story") # {}

\* The title call failed for an Indonesian story, which has gone on to be completed
C14_Witness ==
    \E j \in Jobs :
        /\ StageFailed(j, "title_api") # {}
        /\ StageSucceeded(j, "speech")
        /\ StatusOf(j) = "completed"
        /\ \E r \in webhook_statuses[j].result : r.title = "Ajaib Cerita"

\* C15: when music is requested and mixing fails the job does not fail: the
\* speech path stays the audio location and the job goes on to persistence; the
\* mixed path is the audio location only when mixing succeeded; the mix adapter
\* is not called when no music was requested.
StageCalled(j, stage) ==
    \E i \in DOMAIN calls[j] : calls[j][i].stage = stage

C15_MixFailureIsNotFatal ==
    \A j \in RequestIds :
        /\ req[j].backgroundMusic = None => ~StageCalled(j, "mix")
        /\ StageCalled(j, "mix") => req[j].backgroundMusic # None
        /\ loc[j].audio_path = Some(MixedPath) => StageSucceeded(j, "mix")
        /\ (j \in Jobs /\ \E r \in webhook_statuses[j].result :
                              r.audioUrl = AudioUrl(MixedPath))
              => StageSucceeded(j, "mix")
        /\ StageFailed(j, "mix") # {} =>
              /\ pc[j] \in {"u08", "create_story"} =>
                    /\ StatusOf(j) = "processing"
                    /\ loc[j].audio_path = loc[j].voice_path
                    /\ loc[j].audio_path = Some(VoicePath)
              /\ StatusOf(j) = "failed" => StageFailed(j, "create_story") # {}
              /\ StatusOf(j) = "completed" =>
                    \E r \in webhook_statuses[j].result :
                        r.audioUrl = AudioUrl(VoicePath)

\* Music was requested, mixing failed, and the story was completed with the speech
C15_Witness ==
    \E j \in Jobs :
        /\ req[j].backgroundMusic # None
        /\ StageFailed(j, "mix") # {}
        /\ StatusOf(j) = "completed"

\* C16: captioning N images of which exactly one fails yields N captions in the
\* order of the images, the failed position holding the placeholder
\* "An image that could not be analyzed.", and the call returns (nothing is
\* raised into the job).
FailedImages(outcomes) ==
    {i \in DOMAIN outcomes : outcomes[i] \in {"adapter_error", "model_unavailable"}}

C16_OneFailureGetsPlaceholder ==
    \A scenarios \in caption_call.scenarios :
        LET outcomes == caption_call.outcomes
            sources == ImageSources(Len(outcomes))
        IN Cardinality(FailedImages(outcomes)) = 1 =>
              /\ Len(scenarios) = Len(outcomes)
              /\ \A i \in DOMAIN outcomes :
                    scenarios[i] =
                        IF i \in FailedImages(outcomes)
                        THEN "An image that could not be analyzed."
                        ELSE img2text(sources[i], outcomes[i]).text

\* C17: a registry update is a partial merge: for an existing job every field
\* among status, progress, result, error that was not provided keeps its value
\* and every provided one takes the given value, request_id and created_at do
\* not change, updated_at is refreshed, and no other job's entry is modified.
UpdateArguments ==
    [status   : {None, Some("processing"), Some("failed")},
     progress : {None, Some(0), Some(7)},
     result   : {None, Some([success |-> TRUE])},
     error    : {None, Some("boom")}]

\* The registry with the entry of one more job, which is left alone
Bystander == WebhookStatus(0, "processing", 4, None, None, 0, 0)
WithBystander(statuses) == (Bystander.request_id :> Bystander) @@ statuses

C17_UpdateIsPartialMerge ==
    \A r \in Jobs, a \in UpdateArguments :
        LET before == WithBystander(webhook_statuses)
            after  == update_webhook_status(before, r, a.status, a.progress,
                                            a.result, a.error, now)
        IN /\ DOMAIN after = DOMAIN before
           /\ \A o \in DOMAIN before \ {r} : after[o] = before[o]
           /\ after[r].request_id = before[r].request_id
           /\ after[r].created_at = before[r].created_at
           /\ after[r].updated_at = now
           /\ after[r].status =
                 IF a.status = None THEN before[r].status ELSE The(a.status)
           /\ after[r].progress =
                 IF a.progress = None THEN before[r].progress ELSE The(a.progress)
           /\ after[r].result = IF a.result = None THEN before[r].result ELSE a.result
           /\ after[r].error = IF a.error = None THEN before[r].error ELSE a.error

\* The pipeline has updated the progress alone (the status was kept) and the
\* clock has advanced since, so that the next update has to refresh updated_at
C17_Witness ==
    \E j \in Jobs :
        /\ StatusOf(j) = "processing"
        /\ webhook_statuses[j].progress = 9
        /\ history[j][Len(history[j]) - 1] = <<"processing", 8>>
        /\ webhook_statuses[j].updated_at < now

\* C18: update and get on an id that is not in the registry report not-found
\* (update returns no job, get returns none, the status endpoint answers 404),
\* create no entry and leave the registry unchanged; get on a known id returns
\* the job's current status, progress, result, error and timestamps.
UnknownIdIsNotFound ==
    \A request_id \in (RequestIds \cup UnknownIds) \ Jobs :
        /\ get_webhook_status(webhook_statuses, request_id) = None
        /\ StatusResponse(webhook_statuses, request_id).status_code = 404
        /\ \A a \in UpdateArguments :
              /\ update_webhook_status(webhook_statuses, request_id, a.status,
                                       a.progress, a.result, a.error, now)
                    = webhook_statuses
              /\ update_webhook_status_returns(webhook_statuses, request_id, a.status,
                                               a.progress, a.result, a.error, now)
                    = None

KnownIdIsReturned ==
    \A request_id \in Jobs :
        get_webhook_status(webhook_statuses, request_id) = Some(webhook_statuses[request_id])

StatusAnswerIsCurrent ==
    response' # response =>
        /\ webhook_statuses' = webhook_statuses
        /\ \A r \in response' :
              IF r.request_id \in Jobs
              THEN LET job == webhook_statuses[r.request_id] IN
                   /\ r.answer.status_code = 200
                   /\ r.answer.body.requestId = r.request_id
                   /\ r.answer.body.status = job.status
                   /\ r.answer.body.progress = job.progress
                   /\ r.answer.body.result = job.result
                   /\ r.answer.body.error = job.error
                   /\ r.answer.body.createdAt = job.created_at
                   /\ r.answer.body.updatedAt = job.updated_at
              ELSE r.answer.status_code = 404

C18_UnknownIdNotFound ==
    /\ [](UnknownIdIsNotFound /\ KnownIdIsReturned)
    /\ [][StatusAnswerIsCurrent]_vars

\* A client has asked for an id that no request was given, while a job is running
C18_Witness ==
    /\ \E j \in Jobs : StatusOf(j) = "processing"
    /\ \E r \in response : r.request_id \notin Jobs /\ r.answer.status_code = 404

\* C19: for every job updated_at >= created_at in every reachable state, and
\* every update call leaves updated_at strictly greater than it was before.
UpdatedNotBeforeCreated ==
    \A j \in Jobs : webhook_statuses[j].updated_at >= webhook_statuses[j].created_at

UpdateAdvancesUpdatedAt ==
    \A j \in Jobs :
        Len(history'[j]) > Len(history[j]) =>
            webhook_statuses'[j].updated_at > webhook_statuses[j].updated_at

C19_UpdatedAtStrictlyIncreases ==
    /\ []UpdatedNotBeforeCreated
    /\ [][UpdateAdvancesUpdatedAt]_vars

\* C20: each accepted asynchronous request creates exactly one registry entry,
\* pending with progress 0.0, before its pipeline is scheduled, and is answered
\* with that entry's id before any pipeline stage has run; distinct requests
\* have distinct ids and no later create overwrites an existing entry.
Accepted == {j \in RequestIds : pc[j] \notin {"idle", "rejected"}}

---------------------------------------------------------------------------
(* Properties of admission to the generation endpoints *)

\* The caller's users row and request
CallerUser == The(caller).user
CallerRequest == The(caller).request

\* The caller has no story credits, or no row in the users table
Uncredited == caller # None /\ (CallerUser = None \/ The(CallerUser).story_credits <= 0)

\* Nothing was started for the caller on either endpoint: no registry entry, no
\* background task, no stage
NothingStarted ==
    /\ Jobs = {}
    /\ \A j \in RequestIds : pc[j] \in {"idle", "rejected"} /\ calls[j] = <<>>
    /\ sync.stages = <<>>
    /\ sync.tasks = <<>>

\* Each endpoint that has answered has answered with an error
AnsweredWithError ==
    /\ answer[1] # None => ~The(answer[1]).success /\ The(answer[1]).error # None
    /\ sync.response # None =>
           ~The(sync.response).success /\ The(sync.response).error # None

\* C21: a generation request from a user with no story credits, or from an
\* unknown user, is answered with an error by both endpoints, and nothing is
\* started for it: no job, no pipeline stage, no background task.
C21_NoCreditsIsRejected ==
    Uncredited => NothingStarted /\ AnsweredWithError

C21_Witness ==
    /\ Uncredited
    /\ CallerUser # None
    /\ answer[1] # None
    /\ sync.response # None

\* The caller's tier lacks a feature the request asks for: a long story or
\* background music, from a tier that is neither premium nor family
FeatureLacking ==
    /\ caller # None
    /\ CallerUser # None
    /\ The(CallerUser).subscription_tier \notin {"premium", "family"}
    /\ CallerRequest.duration = "long" \/ CallerRequest.backgroundMusic # None

\* No story was stored for the caller by either endpoint
NoStoryProduced ==
    /\ \A j \in RequestIds : loc[j].story_id = None
    /\ sync.response # None => ~The(sync.response).success

\* C22: a request for a long story or for background music from a user whose
\* tier lacks the feature is rejected by whichever endpoint receives it: no job
\* is created and no story is produced.
C22_FeatureGateOnBothEndpoints ==
    FeatureLacking => Jobs = {} /\ NoStoryProduced /\ AnsweredWithError

---------------------------------------------------------------------------
(* Properties of the Realtime Notifier *)

\* The user-level subscription set of a user, empty for a user without one
UserLevel(subscriptions, user_id) ==
    IF user_id \in DOMAIN subscriptions THEN subscriptions[user_id] ELSE {}

\* Another active connection of c's user holds request_id in its own set
OtherSubscribed(c, request_id) ==
    \E other \in ConnectionsOf(c[1]) \ {c} : request_id \in SubscriptionsOf(other)

\* C23: unsubscribing connection c from job id r removes r from the user-level
\* set of c's user exactly when no other active connection of that user is
\* still subscribed to r, otherwise the user-level set keeps what it has; in
\* both cases only c's own subscription to r is cleared.
C23_UnsubscribeKeepsSharedIds ==
    [][\A c \in ConnectionIds, r \in RequestIds :
          unsubscribe(c, r) =>
             /\ UserLevel(user_subscriptions', c[1]) =
                   IF OtherSubscribed(c, r)
                   THEN UserLevel(user_subscriptions, c[1])
                   ELSE UserLevel(user_subscriptions, c[1]) \ {r}
             /\ \A u \in UserIds \ {c[1]} :
                   UserLevel(user_subscriptions', u) = UserLevel(user_subscriptions, u)
             /\ DOMAIN request_subscriptions' = DOMAIN request_subscriptions
             /\ request_subscriptions'[c] = request_subscriptions[c] \ {r}
             /\ \A other \in DOMAIN request_subscriptions \ {c} :
                   request_subscriptions'[other] = request_subscriptions[other]
             /\ active_connections' = active_connections]_vars

\* Of two active connections of one user, one holds request 1 in its own set
\* and the other, after its unsubscribe, does not: the user-level set holds the id
C23_Witness ==
    \E c \in ConnectionIds, other \in ConnectionIds :
        /\ c # other
        /\ c[1] = other[1]
        /\ IsActive(c)
        /\ IsActive(other)
        /\ 1 \notin request_subscriptions[c]
        /\ 1 \in request_subscriptions[other]
        /\ 1 \in user_subscriptions[c[1]]

\* C24: disconnecting a connection without a prior unsubscribe releases all
\* that is held for it: it leaves the active-connection map and the
\* per-connection subscription map, the job ids only it was subscribed to leave
\* the user-level set of its user, and no broadcast is sent to it afterwards.
C24_DisconnectReleasesEverything ==
    /\ [][\A c \in ConnectionIds :
             disconnect(c) =>
                /\ ~IsActive(c)'
                /\ c \notin DOMAIN request_subscriptions'
                /\ \A r \in SubscriptionsOf(c) :
                      ~OtherSubscribed(c, r) =>
                          r \notin UserLevel(user_subscriptions', c[1])]_vars
    /\ [][\A c \in ConnectionIds :
             bcast.sending = None /\ bcast'.sending = Some(c) => IsActive(c)]_vars

\* The number of sends a broadcast has made to connection c
Sends(attempts, c) ==
    Cardinality({i \in 1..Len(attempts) : attempts[i].connection = c})

\* The step on which the broadcast call of the given kind returns
Returns(kind) ==
    /\ bcast.state = "running"
    /\ bcast.kind = kind
    /\ bcast'.state = "returned"

Audience ==
    IF bcast.kind = "subscribers"
    THEN SubscribedConnections(bcast.key)
    ELSE ConnectionsOf(bcast.key)

C28_InterleavedBroadcastCompletes ==
    bcast.state \in {"idle", "running", "returned"}

---------------------------------------------------------------------------
(* Properties of concurrent access to the Job Status Registry *)

\* The registry after the last complete call, and after the call in progress
\* once it is complete (the same when no call is in progress)
LastComplete ==
    IF update_call.line = "idle" THEN webhook_statuses ELSE update_call.before

NextComplete(t) ==
    IF update_call.line = "idle"
    THEN webhook_statuses
    ELSE LET a == The(update_call.arguments) IN
         update_webhook_status(update_call.before, update_call.request_id,
                               a.status, a.progress, a.result, a.error, t)

\* C29: a read of the registry that runs while the job's writer is at work
\* never sees a partially applied update: the status, progress, result, error
\* and updated_at the status endpoint answers with are those of the entry after
\* one complete update call (or after the create), and a complete call leaves
\* the entry as the merge of its arguments.
C29_ReadsSeeCompleteUpdates ==
    /\ [][\A request_id \in RequestIds :
             get_story_status(request_id) =>
                \E t \in 0..MaxTime :
                    The(response').answer \in
                        { StatusResponse(LastComplete, request_id),
                          StatusResponse(NextComplete(t), request_id) }]_vars
    /\ [][AssignUpdatedAt => webhook_statuses' = NextComplete(now)]_vars

\* The status endpoint has answered with the entry as the failure update left
\* it, and the writer is now inside its next call, past the first assignment
C29_Witness ==
    /\ response # None
    /\ The(response).answer.status_code = 200
    /\ The(response).answer.body.status = "failed"
    /\ The(response).answer.body.progress = 0
    /\ The(response).answer.body.error = Some("boom")
    /\ update_call.line = "progress"
    /\ webhook_statuses[1].status = "completed"
    /\ webhook_statuses[1].progress = 0

---------------------------------------------------------------------------
(* Properties of the order of the stages *)

\* The stages of the pipeline in the order of the claim: store images, caption,
\* narrative, title, speech, mix, persist, finalize
StageOrder ==
    <<"store_images", "analyze", "story", "title", "speech", "mix",
      "create_story", "store_related">>

StageIndex(stage) == CHOOSE i \in 1..Len(StageOrder) : StageOrder[i] = stage

\* The progress of the registry update that announces each stage, in tenths
AnnouncedProgress == [i \in 1..Len(StageOrder) |-> i + 1]

IsStage(record) == \E i \in 1..Len(StageOrder) : StageOrder[i] = record.stage

\* The stages request j has called so far, in the order of the calls
StagesOf(called) == SelectSeq(called, IsStage)

\* Each stage called is the one after the stage called before it; the mix alone
\* can be left out (a request without background music)
StagesInOrder(j) ==
    LET stages == StagesOf(calls[j]) IN
    \A i \in 1..Len(stages) :
        LET k == StageIndex(stages[i].stage) IN
        IF i = 1
        THEN k = 1
        ELSE LET previous == StageIndex(stages[i - 1].stage) IN
             \/ k = previous + 1
             \/ /\ StageOrder[previous] = "speech"
                /\ StageOrder[k] = "create_story"
                /\ req[j].backgroundMusic = None

\* C30: within one job the stages run strictly in the order store images,
\* caption, narrative, title, speech, mix, persist, finalize; the call of a
\* stage starts only when the registry update that announces the stage is the
\* last one applied; and one step of the job is inside one stage at most.
C30_StagesRunInOrder ==
    /\ [](\A j \in RequestIds : StagesInOrder(j))
    /\ [][\A j \in RequestIds :
             LET before == StagesOf(calls[j])
                 after  == StagesOf(calls'[j])
             IN
             after # before =>
                /\ Len(after) = Len(before) + 1
                /\ SubSeq(after, 1, Len(before)) = before
                /\ history[j][Len(history[j])] =
                      <<"processing",
                        AnnouncedProgress[StageIndex(after[Len(after)].stage)]>>]_vars

\* A job with background music has called all eight stages and is completed
C30_Witness ==
    \E j \in Jobs :
        /\ Len(StagesOf(calls[j])) = Len(StageOrder)
        /\ \A i \in 1..Len(StageOrder) : StagesOf(calls[j])[i].stage = StageOrder[i]
        /\ StatusOf(j) = "completed"

---------------------------------------------------------------------------
(* Several background tasks on one event loop *)

InitPeers ==
    /\ InitService(PeerIds)
    /\ NotFollowed({})
    /\ caption_call = NoCaptionCall
    /\ caller = None

\* The tasks of the accepted requests take their steps in any order: a task
\* gives up the loop at each await of an external call
NextPeers ==
    \/ \E j \in PeerIds : generate_story_webhook(j)
    \/ \E j \in PeerIds : process_story_generation_async(j)

SpecPeers == InitPeers /\ [][NextPeers]_vars

\* What a reader sees of an entry, the request id and the time stamps apart
Shown(entry) ==
    [status |-> entry.status, progress |-> entry.progress,
     result |-> entry.result, error |-> entry.error]

\* Two tasks at the same line, their frames still alive, that were handed the
\* same request and whose external calls have answered the same
SameRun(i, j) ==
    /\ pc[i] = pc[j]
    /\ pc[i] \notin {"idle", "rejected", "done"}
    /\ req[i] = req[j]
    /\ calls[i] = calls[j]
    /\ loc[i] = loc[j]

\* C31: when several jobs interleave at their suspension points, a step of one
\* job's pipeline leaves every other job's registry entry and state sequence as
\* they are, and two jobs with the same request and the same adapter outcomes
\* have gone through the same sequence of states, however their steps were
\* interleaved.
C31_JobsAreIndependent ==
    /\ [](\A i \in PeerIds, j \in PeerIds :
            SameRun(i, j) =>
               /\ history[i] = history[j]
               /\ Shown(webhook_statuses[i]) = Shown(webhook_statuses[j]))
    /\ [][\A j \in PeerIds :
            process_story_generation_async(j) =>
               \A i \in PeerIds \ {j} :
                  /\ history'[i] = history[i]
                  /\ i \in DOMAIN webhook_statuses =>
                        webhook_statuses'[i] = webhook_statuses[i]]_vars

\* Two jobs are in their pipelines at once: both wait for the speech service
\* after the same outcomes, each with its own six registry writes behind it
C31_Witness ==
    \E i \in PeerIds :
        \E j \in PeerIds \ {i} :
            /\ {i, j} \subseteq Jobs
            /\ SameRun(i, j)
            /\ pc[i] = "speech"
            /\ Len(history[i]) >= 6
            /\ Len(history[j]) >= 6

---------------------------------------------------------------------------
(* The credit decrement of the synchronous endpoint *)

\* The repository calls that store a story and what belongs to it
StoreCalls ==
    <<"create_story", "add_story_characters", "add_story_images", "add_story_tags">>

EndsWith(seq, tail) ==
    /\ Len(seq) >= Len(tail)
    /\ SubSeq(seq, Len(seq) - Len(tail) + 1, Len(seq)) = tail

\* C32: a call of the synchronous generate endpoint that is answered with
\* success has scheduled the credit decrement exactly once, after the story and
\* what belongs to it were stored; a call answered with failure has scheduled
\* nothing.
C32_DecrementScheduledOnSuccessOnly ==
    sync.response # None =>
        IF The(sync.response).success
        THEN /\ sync.tasks = <<"decrement_story_credits">>
             /\ EndsWith(sync.stages, StoreCalls)
        ELSE sync.tasks = <<>>

\* A caller with a credit has been answered with success, the story stored
C32_Witness ==
    /\ sync.response # None
    /\ The(sync.response).success
    /\ Len(sync.tasks) = 1
    /\ The(CallerUser).story_credits = 1
    /\ EndsWith(sync.stages, StoreCalls)

---------------------------------------------------------------------------
(* The duration estimate of generate_story_from_scenarios *)

DurationTiers == {"short", "medium", "long"}

\* DURATION_CONFIG with settings.DURATION_*_WORDS
DURATION_CONFIG ==
    ( "short"  :> [words |-> 150, time_seconds |-> 60] ) @@
    ( "medium" :> [words |-> 400, time_seconds |-> 180] ) @@
    ( "long"   :> [words |-> 700, time_seconds |-> 300] )

\* A Python float is an IEEE 754 binary64 number. A positive one is written
\* [bits, exp]: bits are its Precision significant binary digits, the most
\* significant (a 1) first, and its value is the number bits spell times 2^exp.
Precision == 53

\* The number a sequence of binary digits spells
RECURSIVE BitsToNat(_)
BitsToNat(bits) ==
    IF bits = <<>> THEN 0
    ELSE IF Len(bits) = 1 THEN bits[1]
    ELSE LET half == Len(bits) \div 2 IN
         BitsToNat(SubSeq(bits, 1, half)) * (2 ^ (Len(bits) - half))
            + BitsToNat(SubSeq(bits, half + 1, Len(bits)))

\* The binary digits of n, without leading zeros
RECURSIVE NatToBits(_)
NatToBits(n) == IF n = 0 THEN <<>> ELSE NatToBits(n \div 2) \o <<n % 2>>

\* The last count binary digits of n
Digits(n, count) == [i \in 1..count |-> (n \div (2 ^ (count - i))) % 2]

\* (2 ^ e) % m
RECURSIVE PowerOfTwoMod(_, _)
PowerOfTwoMod(e, m) ==
    IF e = 0 THEN 1 % m
    ELSE IF e % 2 = 1 THEN (2 * PowerOfTwoMod(e - 1, m)) % m
    ELSE (PowerOfTwoMod(e \div 2, m) * PowerOfTwoMod(e \div 2, m)) % m

\* a / b = (x / y) * 2^k with 1 <= x / y < 2, returned as <<x, y, k>>
RECURSIVE Normalise(_, _, _)
Normalise(a, b, k) ==
    IF a >= 2 * b THEN Normalise(a, 2 * b, k + 1)
    ELSE IF a < b THEN Normalise(2 * a, b, k - 1)
    ELSE <<a, b, k>>

\* The first n binary digits of r / b, for r < 2 * b, followed by what is left
\* over: rem, with rem / b the rest in units of the digit after the last one.
\* Schoolbook division doubles the rest after each digit: before digit i the
\* rest is (r * 2^(i-1)) % (2 * b).
LongDivision(r, b, n) ==
    [i \in 1..(n + 1) |->
        LET rest == (r * PowerOfTwoMod(i - 1, 2 * b)) % (2 * b) IN
        IF i <= n THEN rest \div b ELSE rest]

\* bits plus one, after the carry out of the first digit
Increment(bits) ==
    LET zeros == {i \in 1..Len(bits) : bits[i] = 0} IN
    IF zeros = {}
    THEN <<1>> \o [i \in 1..Len(bits) |-> 0]
    ELSE LET last == CHOOSE i \in zeros : \A z \in zeros : z <= i IN
         <<0>> \o [i \in 1..Len(bits) |->
                     IF i < last THEN bits[i] ELSE IF i = last THEN 1 ELSE 0]

\* Round to nearest, ties to even: bits are the Precision kept digits and rest
\* tells how what was cut off compares with half a unit of the last kept digit
RoundHalfEven(bits, exp, rest) ==
    LET up == Increment(bits) IN
    IF rest = "more" \/ (rest = "half" /\ bits[Len(bits)] = 1)
    THEN IF up[1] = 1
         THEN [bits |-> SubSeq(up, 1, Len(bits)), exp |-> exp + 1]
         ELSE [bits |-> SubSeq(up, 2, Len(up)), exp |-> exp]
    ELSE [bits |-> bits, exp |-> exp]

\* a / b for ints a > 0, b > 0: the float nearest to the quotient
true_divide(a, b) ==
    LET n == Normalise(a, b, 0)
        d == LongDivision(n[1], n[2], Precision)
        rem == d[Precision + 1]
        rest == IF rem > n[2] THEN "more"
                ELSE IF rem = n[2] THEN "half" ELSE "less"
    IN  RoundHalfEven(SubSeq(d, 1, Precision), n[3] - (Precision - 1), rest)

\* The digits of bits * m + carry, for an int m below 2^15: the digits are
\* multiplied sixteen at a time, from the last
RECURSIVE TimesSmall(_, _, _)
TimesSmall(bits, m, carry) ==
    IF bits = <<>> THEN NatToBits(carry)
    ELSE LET n == Len(bits)
             width == IF n > 16 THEN 16 ELSE n
             t == BitsToNat(SubSeq(bits, n - width + 1, n)) * m + carry
         IN  TimesSmall(SubSeq(bits, 1, n - width), m, t \div (2 ^ width))
                \o Digits(t % (2 ^ width), width)

\* m * x for an int m > 0 and a float x: m is converted without loss and the
\* exact product is rounded to Precision digits
float_multiply(m, x) ==
    LET product == TimesSmall(x.bits, m, 0)
        cut == Len(product) - Precision
        kept == SubSeq(product, 1, Precision)
        dropped == SubSeq(product, Precision + 1, Len(product))
        rest == IF cut = 0 \/ dropped[1] = 0 THEN "less"
                ELSE IF \E i \in 2..cut : dropped[i] = 1 THEN "more" ELSE "half"
    IN  RoundHalfEven(kept, x.exp + cut, rest)

\* int(x) for a float x > 0: the digits before the binary point
float_to_int(x) ==
    IF x.exp >= 0 THEN BitsToNat(x.bits) * (2 ^ x.exp)
    ELSE IF Precision + x.exp <= 0 THEN 0
    ELSE BitsToNat(SubSeq(x.bits, 1, Precision + x.exp))

\* duration_ratio = word_count / duration_config["words"]
\* estimated_duration_seconds = int(duration_config["time_seconds"] * duration_ratio)
estimated_duration_seconds(duration, word_count) ==
    LET duration_config == DURATION_CONFIG[duration] IN
    IF word_count = 0 THEN 0
    ELSE float_to_int(float_multiply(duration_config.time_seconds,
                                     true_divide(word_count, duration_config.words)))

\* The text the completion service returns has word_count words
WordCounts == 0..MaxWords

InitEstimate ==
    /\ InitService(RequestIds)
    /\ NotFollowed({"estimate"})
    /\ caption_call = NoCaptionCall
    /\ caller = None
    /\ \E duration \in DurationTiers, word_count \in WordCounts :
          estimate = Some([duration |-> duration, word_count |-> word_count,
                           returned |-> None])

\* return story_text, estimated_duration_seconds
ReturnEstimate ==
    /\ estimate # None
    /\ The(estimate).returned = None
    /\ estimate' = Some([The(estimate) EXCEPT !.returned =
                            Some(estimated_duration_seconds(The(estimate).duration,
                                                            The(estimate).word_count))])
    /\ UNCHANGED <<serviceVars, post_call, creditVars, limiterVars>>

SpecEstimate == InitEstimate /\ [][ReturnEstimate]_vars

\* The estimate a returned call has reported
Reported == The(The(estimate).returned)
HasReported == estimate # None /\ The(estimate).returned # None

\* C33: the duration reported for a generated story equals
\* tier_base_seconds * (word_count / tier_target_words) for the requested tier,
\* in whole seconds (the product's whole part where it is not whole itself).
C33_DurationIsProportional ==
    HasReported =>
        LET duration_config == DURATION_CONFIG[The(estimate).duration] IN
        Reported = (duration_config.time_seconds * The(estimate).word_count)
                      \div duration_config.words

\* The scenario of the specification: 300 words for tier short
C33_ShortScenario ==
    HasReported /\ The(estimate).duration = "short" /\ The(estimate).word_count = 300
        => Reported = 120

---------------------------------------------------------------------------
(* send_completion_webhook, one call *)

\* The statuses an HTTP response can carry
HttpStatuses == 100..599
HttpOutcomes ==
    {[raised |-> FALSE, status_code |-> s] : s \in HttpStatuses} \cup
    {[raised |-> TRUE, status_code |-> 0]}

\* callback_url as the task passes it on: the request's Optional[str]
PassedUrls == {None, Some("")} \cup {Some(u) : u \in CallbackUrls}

InitPost ==
    /\ InitService(RequestIds)
    /\ NotFollowed({"post_call"})
    /\ caption_call = NoCaptionCall
    /\ caller = None
    /\ \E callback_url \in PassedUrls :
          post_call = Some([callback_url |-> callback_url, line |-> "called",
                            attempts |-> 0, outcome |-> None, returned |-> None])

\* if not callback_url: return False; else the POST is sent
BeginPost ==
    /\ post_call # None
    /\ The(post_call).line = "called"
    /\ post_call' =
          IF The(post_call).callback_url \in {None, Some("")}
          THEN Some([The(post_call) EXCEPT !.line = "returned", !.returned = Some(FALSE)])
          ELSE Some([The(post_call) EXCEPT !.line = "posting", !.attempts = @ + 1])
    /\ UNCHANGED <<serviceVars, estimate, creditVars, limiterVars>>

\* The POST answers or raises, and send_completion_webhook returns
PostAnswers ==
    /\ post_call # None
    /\ The(post_call).line = "posting"
    /\ \E outcome \in HttpOutcomes :
          post_call' = Some([The(post_call) EXCEPT
                                !.line = "returned",
                                !.outcome = Some(outcome),
                                !.returned = Some(send_completion_webhook(outcome))])
    /\ UNCHANGED <<serviceVars, estimate, creditVars, limiterVars>>

NextPost == BeginPost \/ PostAnswers

SpecPost == InitPost /\ [][NextPost]_vars

\* C34: send_completion_webhook makes a single POST attempt and reports the
\* webhook as delivered for every 2xx response status, and as not delivered for
\* every other status, a timeout or a transport error.
C34_Every2xxIsDelivered ==
    post_call # None /\ The(post_call).line = "returned" =>
        LET call == The(post_call) IN
        /\ call.attempts <= 1
        /\ call.outcome # None =>
              (The(call.returned) <=>
                  /\ ~The(call.outcome).raised
                  /\ The(call.outcome).status_code \in 200..299)

---------------------------------------------------------------------------
(* The two levels of subscription *)

\* C35: in every reachable state of the connection manager, a request id that
\* an active connection of user u is subscribed to is in u's user-level set, so
\* the connections broadcast_to_subscribers reaches (it looks at the user-level
\* set first) are all the subscribed connections, after any sequence of connect,
\* subscribe, unsubscribe and disconnect.
C35_UserSetCoversConnections ==
    /\ \A c \in ConnectionIds :
          IsActive(c) /\ c \in DOMAIN request_subscriptions =>
             /\ c[1] \in DOMAIN user_subscriptions
             /\ request_subscriptions[c] \subseteq user_subscriptions[c[1]]
    /\ \A request_id \in RequestIds :
          Subscribers(request_id) = SubscribedConnections(request_id)

\* A user has two connections open, one subscribed to a request and the other
\* not, and the request is in the user's set
C35_Witness ==
    \E c \in ConnectionIds, other \in ConnectionIds, request_id \in RequestIds :
        /\ c # other
        /\ c[1] = other[1]
        /\ IsActive(c)
        /\ IsActive(other)
        /\ request_id \in request_subscriptions[c]
        /\ request_id \notin request_subscriptions[other]
        /\ request_id \in user_subscriptions[c[1]]

---------------------------------------------------------------------------
(* What the two endpoints store for a story *)

\* The table a repository call writes its rows to
TableOf ==
    ( "create_story" :> "stories" ) @@
    ( "add_story_characters" :> "characters" ) @@
    ( "add_story_images" :> "images" ) @@
    ( "add_story_tags" :> "story_tags" )

\* The repository calls of a stage of the background task
RepositoryCalls(stage) ==
    IF stage = "create_story" THEN {"create_story"}
    ELSE IF stage = "store_related" THEN {"add_story_characters", "add_story_images"}
    ELSE {}

\* The tables the task of request j has written to
AsyncStored(j) ==
    {TableOf[call] : call \in UNION {RepositoryCalls(calls[j][i].stage) :
                                        i \in {k \in DOMAIN calls[j] : calls[j][k].ok}}}

\* The tables the handler of the synchronous endpoint has written to
SyncStored ==
    {TableOf[sync.stages[i]] :
        i \in {k \in DOMAIN sync.stages : sync.stages[k] \in DOMAIN TableOf}}

\* C36: for the same request, a completed asynchronous job has stored the same
\* story-related entities as a successful synchronous request: the story record
\* with its characters, its images and its tags.
C36_SameEntitiesStored ==
    /\ 1 \in Jobs
    /\ StatusOf(1) = "completed"
    /\ sync.response # None
    /\ The(sync.response).success
    => /\ AsyncStored(1) = SyncStored
       /\ AsyncStored(1) = {"stories", "characters", "images", "story_tags"}

---------------------------------------------------------------------------
(* Story credits: concurrent calls of the synchronous endpoint *)

HandlerIds == 1..MaxHandlers

\* A request that needs no premium feature
PlainRequest == [callback_url |-> None, backgroundMusic |-> None, duration |-> "short"]

IdleHandler == [line |-> "idle", success |-> FALSE, tasks |-> <<>>, decremented |-> FALSE]

InitCredits ==
    /\ InitService(RequestIds)
    /\ NotFollowed({"credits"})
    /\ caption_call = NoCaptionCall
    /\ caller = None
    /\ \E n \in 0..MaxCredits, tier \in SubscriptionTiers :
          profile = Some([story_credits |-> n, subscription_tier |-> tier])
    /\ handler = [h \in HandlerIds |-> IdleHandler]

\* generate_story up to its first await of an external service: the credits and
\* the features are read from the row as it is now; what the services will
\* answer is o
HandlerAdmits(h) ==
    /\ handler[h].line = "idle"
    /\ \E o \in SyncOutcomes :
          LET run == generate_story_run(profile, PlainRequest, o) IN
          handler' = [handler EXCEPT ![h] =
                         [line |-> IF run.stages = <<>> THEN "answered" ELSE "running",
                          success |-> The(run.response).success,
                          tasks |-> run.tasks,
                          decremented |-> FALSE]]
    /\ UNCHANGED <<serviceVars, estimate, post_call, profile, limiterVars>>

\* The services have answered: the story is stored or the call has failed, and
\* the handler returns its response; FastAPI then runs what was added to
\* background_tasks
HandlerReturns(h) ==
    /\ handler[h].line = "running"
    /\ handler' = [handler EXCEPT ![h].line =
                      IF handler[h].tasks = <<>> THEN "answered" ELSE "task"]
    /\ UNCHANGED <<serviceVars, estimate, post_call, profile, limiterVars>>

\* The background task of a call that was answered with success
TaskRuns(h) ==
    /\ handler[h].line = "task"
    /\ profile' = decrement_story_credits(profile).row
    /\ handler' = [handler EXCEPT ![h].line = "done",
                                  ![h].decremented = decrement_story_credits(profile).returns]
    /\ UNCHANGED <<serviceVars, estimate, post_call, limiterVars>>

NextCredits ==
    \/ \E h \in HandlerIds : HandlerAdmits(h)
    \/ \E h \in HandlerIds : HandlerReturns(h)
    \/ \E h \in HandlerIds : TaskRuns(h)

SpecCredits == InitCredits /\ [][NextCredits]_vars

\* The calls that have stored a story
Stored == {h \in HandlerIds : handler[h].success /\ handler[h].line \in {"task", "done"}}

\* The credits of the row before the first decrement
CreditsAtStart ==
    The(profile).story_credits
       + Cardinality({h \in HandlerIds : handler[h].decremented})

\* C37: with concurrent generation requests of one user, the number of
\* requests that end in a stored story never exceeds the number of story
\* credits the user had when the first of them was accepted.
C37_StoriesWithinCredits ==
    Cardinality(Stored) <= CreditsAtStart

---------------------------------------------------------------------------
(* Story credits: the asynchronous endpoint beside a synchronous call *)

\* POST /api/stories/generate/webhook by the user whose row is followed
CreditedPostsWebhook ==
    /\ pc[1] = "idle"
    /\ \E request \in Requests : generate_story_webhook_call(1, profile, request)
    /\ UNCHANGED <<now, caption_call, response, caller, sync, bcast, update_call,
                   loc, calls, posts, delivered, owed, notifierVars,
                   extraVars>>

NextAsyncCredits ==
    \/ CreditedPostsWebhook
    \/ process_story_generation_async(1)
    \/ HandlerAdmits(1)
    \/ HandlerReturns(1)
    \/ TaskRuns(1)

SpecAsyncCredits == InitCredits /\ [][NextAsyncCredits]_vars

\* C38: the asynchronous pipeline never changes the user's story credits: no
\* step of the asynchronous endpoint or of its background task, from the
\* acceptance of the request to the job's terminal state, performs a credit
\* decrement or schedules one.
C38_AsyncLeavesCredits ==
    [][pc' # pc => profile' = profile /\ handler' = handler]_vars

\* A job has completed and its task has ended, with the user's credit still
\* there and no call of the synchronous endpoint made
C38_Witness ==
    /\ 1 \in Jobs
    /\ StatusOf(1) = "completed"
    /\ pc[1] = "done"
    /\ The(profile).story_credits = 1
    /\ handler[1] = IdleHandler

---------------------------------------------------------------------------
(* The rate limiter: RateLimiter.dispatch and cleanup_rate_limits *)

RATE_LIMIT_RULES ==
    [free    |-> [story_generation |-> [limit |-> 5,    window |-> 3600],
                  get_stories      |-> [limit |-> 100,  window |-> 3600],
                  general          |-> [limit |-> 200,  window |-> 3600]],
     premium |-> [story_generation |-> [limit |-> 20,   window |-> 3600],
                  get_stories      |-> [limit |-> 500,  window |-> 3600],
                  general          |-> [limit |-> 1000, window |-> 3600]],
     family  |-> [story_generation |-> [limit |-> 30,   window |-> 3600],
                  get_stories      |-> [limit |-> 1000, window |-> 3600],
                  general          |-> [limit |-> 2000, window |-> 3600]]]

\* The dict in its insertion order, the order in which dispatch walks it
ENDPOINT_RULES ==
    << [endpoint |-> "/api/stories/generate", rule |-> "story_generation"],
       [endpoint |-> "/api/stories/",         rule |-> "get_stories"] >>

\* The paths dispatch hands to call_next without counting
SkippedPaths == {"/", "/api/health", "/docs", "/redoc", "/openapi.json"}

\* asyncio.sleep(300) of cleanup_rate_limits
CLEANUP_INTERVAL == 300

\* str.startswith
startswith(s, prefix) ==
    Len(s) >= Len(prefix) /\ SubSeq(s, 1, Len(prefix)) = prefix

\* The character at position i of a str
CharAt(s, i) == SubSeq(s, i, i)

\* str.lower on the letters of the alphabet
lower_char(c) ==
    LET upper == "ABCDEFGHIJKLMNOPQRSTUVWXYZ"
        lowered == "abcdefghijklmnopqrstuvwxyz"
        at == {i \in 1..Len(upper) : CharAt(upper, i) = c}
    IN  IF at = {} THEN c ELSE CharAt(lowered, CHOOSE i \in at : TRUE)

RECURSIVE lower(_)
lower(s) ==
    IF Len(s) = 0 THEN s ELSE lower_char(CharAt(s, 1)) \o lower(SubSeq(s, 2, Len(s)))

\* str.split(): the words between runs of spaces
RECURSIVE split_from(_, _, _, _)
split_from(s, i, word, words) ==
    LET closed == IF Len(word) = 0 THEN words ELSE Append(words, word) IN
    IF i > Len(s) THEN closed
    ELSE IF CharAt(s, i) = " " THEN split_from(s, i + 1, "", closed)
    ELSE split_from(s, i + 1, word \o CharAt(s, i), words)

split(s) == split_from(s, 1, "", <<>>)

\* The user id dispatch takes from the headers; raises is the ValueError of
\* unpacking a split that has not two words
user_id_of(authorization) ==
    IF authorization = None
    THEN [raises |-> FALSE, user_id |-> "anonymous"]
    ELSE LET auth == The(authorization) IN
         IF \E i \in 1..Len(auth) : CharAt(auth, i) = " "
         THEN IF Len(split(auth)) # 2
              THEN [raises |-> TRUE, user_id |-> "anonymous"]
              ELSE [raises |-> FALSE,
                    user_id |-> IF lower(split(auth)[1]) = "bearer"
                                THEN split(auth)[2]
                                ELSE "anonymous"]
         ELSE [raises |-> FALSE, user_id |-> auth]

\* The rule of the first endpoint of ENDPOINT_RULES the path starts with
rule_key_of(path) ==
    LET matching == {i \in DOMAIN ENDPOINT_RULES :
                        startswith(path, ENDPOINT_RULES[i].endpoint)}
    IN  IF matching = {}
        THEN "general"
        ELSE ENDPOINT_RULES[CHOOSE i \in matching : \A k \in matching : i <= k].rule

\* rate_key = f"{user_id}:{rule_key}"
rate_key_of(user_id, rule_key) == user_id \o ":" \o rule_key

\* The id of the row of the profiles table that is followed
ProfileId == "user-1"

\* What UserRepository.get_user_by_id can return: the row, or None when there
\* is no row or the query fails
get_user_by_id(user_id) ==
    {None} \cup (IF user_id = ProfileId THEN {profile} ELSE {})

\* The requests the middleware receives
Paths ==
    {"/api/health", "/api/stories/generate", "/api/stories/generate/webhook",
     "/api/stories/user/1", "/api/webhooks/status/1"}

Authorizations ==
    {None, Some("Bearer user-1"), Some("bearer user-1"), Some("user-1"),
     Some("Basic user-1"), Some("Bearer user-1 x")}

\* What dispatch reads from each request: computed once per header and per path
UserIdOfHeader == [authorization \in Authorizations |-> user_id_of(authorization)]
RuleKeyOfPath == [path \in Paths |-> rule_key_of(path)]

\* The requests of one client are followed: of the user whose row is followed,
\* or of an anonymous client when no row is
ClientHeaders ==
    {authorization \in Authorizations :
        \/ UserIdOfHeader[authorization].raises
        \/ UserIdOfHeader[authorization].user_id
               = IF profile = None THEN "anonymous" ELSE ProfileId}

DispatchIds == 1..MaxDispatches

IdleDispatch ==
    [line |-> "idle", user_id |-> "", rule_key |-> "", rate_limit |-> 0, response |-> None]

\* What the route handlers answer
HandlerResponse == [status_code |-> 200, headers |-> <<>>]

\* d[key] = value
SetItem(d, key, value) ==
    [k \in DOMAIN d \cup {key} |-> IF k = key THEN value ELSE d[k]]

\* d.get(key, default)
GetItem(d, key, default) == IF key \in DOMAIN d THEN d[key] ELSE default

\* Mutant: a request is refused only once the count is above the limit
limit_exceeded_Above(count, rate_limit) == count > rate_limit

\* The check of the count against the limit
limit_exceeded(count, rate_limit) == count >= rate_limit

\* dispatch from its first line to its first return or to its call of
\* call_next: nothing between reading the time and the increment is awaited
Receive(d) ==
    /\ dispatch[d].line \in {"idle", "returned", "raised"}
    /\ arrivals < MaxArrivals
    /\ arrivals' = arrivals + 1
    /\ \E path \in Paths, authorization \in ClientHeaders :
          LET who == UserIdOfHeader[authorization]
              user_id == who.user_id
              rule_key == RuleKeyOfPath[path]
              rate_key == rate_key_of(user_id, rule_key)
              current_time == clock
          IN
          IF path \in SkippedPaths
          THEN /\ dispatch' = [dispatch EXCEPT ![d] = [IdleDispatch EXCEPT !.line = "skipped"]]
               /\ UNCHANGED <<rate_limit_store, passed, opened>>
          ELSE IF who.raises
          THEN /\ dispatch' = [dispatch EXCEPT ![d] = [IdleDispatch EXCEPT !.line = "raised"]]
               /\ UNCHANGED <<rate_limit_store, passed, opened>>
          ELSE \E user \in (IF user_id # "anonymous" THEN get_user_by_id(user_id) ELSE {None}) :
               LET subscription_tier ==
                       IF user # None THEN The(user).subscription_tier ELSE "free"
                   rate_limit == RATE_LIMIT_RULES[subscription_tier][rule_key].limit
                   window == RATE_LIMIT_RULES[subscription_tier][rule_key].window
                   fresh == [count |-> 0, reset |-> current_time + window]
                   created == IF rate_key \notin DOMAIN rate_limit_store
                              THEN SetItem(rate_limit_store, rate_key, fresh)
                              ELSE rate_limit_store
                   renewed == IF created[rate_key].reset <= current_time
                              THEN SetItem(created, rate_key, fresh)
                              ELSE created
                   locals == [IdleDispatch EXCEPT !.user_id = user_id,
                                                  !.rule_key = rule_key,
                                                  !.rate_limit = rate_limit]
               IN
               /\ opened' = IF renewed # rate_limit_store
                            THEN SetItem(opened, <<user_id, rule_key>>,
                                         GetItem(opened, <<user_id, rule_key>>, {})
                                            \cup {current_time})
                            ELSE opened
               /\ IF limit_exceeded(renewed[rate_key].count, rate_limit)
                  THEN LET retry_after == renewed[rate_key].reset - current_time
                           headers ==
                               ("X-RateLimit-Limit" :> ToString(rate_limit)) @@
                               ("X-RateLimit-Remaining" :> "0") @@
                               ("X-RateLimit-Reset" :> ToString(renewed[rate_key].reset)) @@
                               ("Retry-After" :> ToString(retry_after))
                       IN
                       /\ rate_limit_store' = renewed
                       /\ dispatch' = [dispatch EXCEPT ![d] =
                             [locals EXCEPT !.line = "returned",
                                            !.response = Some([status_code |-> 429,
                                                               headers |-> headers])]]
                       /\ UNCHANGED passed
                  ELSE /\ rate_limit_store' =
                             [renewed EXCEPT ![rate_key].count = @ + 1]
                       /\ dispatch' = [dispatch EXCEPT ![d] =
                             [locals EXCEPT !.line = "call_next"]]
                       /\ passed' = SetItem(passed, <<user_id, rule_key>>,
                                            Append(GetItem(passed, <<user_id, rule_key>>, <<>>),
                                                   current_time))
    /\ UNCHANGED <<clock, cleanup>>
    /\ UNCHANGED <<serviceVars, estimate, post_call, creditVars>>

\* call_next of a skipped path returns: its response is returned as it is
SkippedReturns(d) ==
    /\ dispatch[d].line = "skipped"
    /\ dispatch' = [dispatch EXCEPT ![d].line = "returned",
                                    ![d].response = Some(HandlerResponse)]
    /\ UNCHANGED <<rate_limit_store, clock, cleanup, passed, opened, arrivals>>
    /\ UNCHANGED <<serviceVars, estimate, post_call, creditVars>>

\* call_next returns and dispatch runs to its end: the three header writes read
\* rate_limit_store[rate_key], a KeyError when the key is not there
CallNextReturns(d) ==
    /\ dispatch[d].line = "call_next"
    /\ LET rate_key == rate_key_of(dispatch[d].user_id, dispatch[d].rule_key)
           rate_limit == dispatch[d].rate_limit
       IN
       IF rate_key \in DOMAIN rate_limit_store
       THEN LET headers ==
                    ("X-RateLimit-Limit" :> ToString(rate_limit)) @@
                    ("X-RateLimit-Remaining" :>
                         ToString(rate_limit - rate_limit_store[rate_key].count)) @@
                    ("X-RateLimit-Reset" :> ToString(rate_limit_store[rate_key].reset))
            IN  dispatch' = [dispatch EXCEPT
                                ![d].line = "returned",
                                ![d].response =
                                    Some([HandlerResponse EXCEPT !.headers = headers])]
       ELSE dispatch' = [dispatch EXCEPT ![d].line = "raised"]
    /\ UNCHANGED <<rate_limit_store, clock, cleanup, passed, opened, arrivals>>
    /\ UNCHANGED <<serviceVars, estimate, post_call, creditVars>>

\* One pass of the loop of cleanup_rate_limits, once its sleep has ended
cleanup_rate_limits ==
    /\ cleanup <= clock
    /\ LET current_time == clock
           expired_keys == {key \in DOMAIN rate_limit_store :
                               rate_limit_store[key].reset <= current_time}
       IN  rate_limit_store' =
               [key \in DOMAIN rate_limit_store \ expired_keys |-> rate_limit_store[key]]
    /\ cleanup' = clock + CLEANUP_INTERVAL
    /\ UNCHANGED <<clock, dispatch, passed, opened, arrivals>>
    /\ UNCHANGED <<serviceVars, estimate, post_call, creditVars>>

\* time.time() moves on, by the length of a window at a time
ElapseSteps == {3600}

Elapse ==
    /\ \E seconds \in ElapseSteps :
          /\ clock + seconds <= MaxWindows * 3600
          /\ clock' = clock + seconds
    /\ UNCHANGED <<rate_limit_store, dispatch, cleanup, passed, opened, arrivals>>
    /\ UNCHANGED <<serviceVars, estimate, post_call, creditVars>>

\* The application after startup_event: the store is empty, the cleanup task is
\* created, and the row of ProfileId is there or not
InitLimiter ==
    /\ InitService(RequestIds)
    /\ NotFollowed({"credits", "limiter"})
    /\ caption_call = NoCaptionCall
    /\ caller = None
    /\ profile \in {None} \cup
                   {Some([story_credits |-> 0, subscription_tier |-> tier]) :
                       tier \in SubscriptionTiers}
    /\ handler = <<>>
    /\ rate_limit_store = <<>>
    /\ clock = 0
    /\ dispatch = [d \in DispatchIds |-> IdleDispatch]
    /\ cleanup = 0
    /\ passed = <<>>
    /\ opened = <<>>
    /\ arrivals = 0

NextLimiter ==
    \/ \E d \in DispatchIds : Receive(d)
    \/ \E d \in DispatchIds : SkippedReturns(d)
    \/ \E d \in DispatchIds : CallNextReturns(d)
    \/ cleanup_rate_limits
    \/ Elapse

SpecLimiter == InitLimiter /\ [][NextLimiter]_vars

---------------------------------------------------------------------------
(* The rate limiter: what is passed on within a window *)

\* The subscription tier of a user: that of the row, "free" without one
TierOf(user_id) ==
    IF user_id = ProfileId /\ profile # None
    THEN The(profile).subscription_tier
    ELSE "free"

\* The rule of the user's tier
RuleOf(user_id, rule_key) == RATE_LIMIT_RULES[TierOf(user_id)][rule_key]

\* The calls of call_next for a key at a time from start up to start + window
PassedWithin(key, start) ==
    {i \in DOMAIN passed[key] :
        /\ start <= passed[key][i]
        /\ passed[key][i] < start + RuleOf(key[1], key[2]).window}

WindowsWithinLimit ==
    \A key \in DOMAIN passed : \A start \in GetItem(opened, key, {}) :
        Cardinality(PassedWithin(key, start)) <= RuleOf(key[1], key[2]).limit

\* The step is dispatch receiving a request of the key in slot d
ReceivedFor(d, key) ==
    /\ arrivals' = arrivals + 1
    /\ dispatch'[d] # dispatch[d]
    /\ dispatch'[d].rule_key # ""
    /\ key = <<dispatch'[d].user_id, dispatch'[d].rule_key>>

\* The entry of the key at the time the request arrives
EntryOf(key) == rate_limit_store[rate_key_of(key[1], key[2])]
HasEntry(key) == rate_key_of(key[1], key[2]) \in DOMAIN rate_limit_store

LimitedIsRefused ==
    \A d \in DispatchIds : \A key \in {<<dispatch'[d].user_id, dispatch'[d].rule_key>>} :
        (/\ ReceivedFor(d, key)
         /\ HasEntry(key)
         /\ EntryOf(key).reset > clock
         /\ EntryOf(key).count >= RuleOf(key[1], key[2]).limit)
        => /\ dispatch'[d].line = "returned"
           /\ The(dispatch'[d].response).status_code = 429
           /\ rate_limit_store' = rate_limit_store
           /\ passed' = passed

ExpiredRestarts ==
    \A d \in DispatchIds : \A key \in {<<dispatch'[d].user_id, dispatch'[d].rule_key>>} :
        (/\ ReceivedFor(d, key)
         /\ HasEntry(key)
         /\ EntryOf(key).reset <= clock)
        => /\ dispatch'[d].line = "call_next"
           /\ rate_limit_store'[rate_key_of(key[1], key[2])] =
                 [count |-> 1, reset |-> clock + RuleOf(key[1], key[2]).window]

\* C39: for every (user, rule) key, the number of requests passed on to a
\* handler within one window never exceeds the limit of the user's tier for
\* that rule; a request arriving when the count has reached the limit is
\* answered 429 without reaching the handler and without incrementing the
\* count, and the count restarts at 0 once the window's reset time has passed.
C39_WindowLimitEnforced ==
    /\ []WindowsWithinLimit
    /\ [][LimitedIsRefused /\ ExpiredRestarts]_vars

\* A key whose first window took its five requests, whose second window has
\* begun with a request passed on, and a request that has been answered 429
C39_Witness ==
    \E key \in DOMAIN passed :
        /\ Cardinality(GetItem(opened, key, {})) = 2
        /\ \E start \in opened[key] :
              Cardinality(PassedWithin(key, start)) = RuleOf(key[1], key[2]).limit
        /\ HasEntry(key)
        /\ EntryOf(key).count = RuleOf(key[1], key[2]).limit
        /\ \E d \in DispatchIds :
              /\ dispatch[d].line = "returned"
              /\ dispatch[d].response # None
              /\ The(dispatch[d].response).status_code = 429

---------------------------------------------------------------------------
(* The rate limiter: the response of an admitted request *)

\* The requests that were passed on to call_next and whose dispatch has ended
Admitted ==
    {d \in DispatchIds :
        /\ dispatch[d].rule_key # ""
        /\ dispatch[d].line \in {"returned", "raised"}
        /\ dispatch[d].response = None
           \/ The(dispatch[d].response).status_code # 429}

RateLimitHeaders == {"X-RateLimit-Limit", "X-RateLimit-Remaining", "X-RateLimit-Reset"}

\* C40: a request admitted by the rate limiter always returns its handler's
\* response with the rate-limit headers set, also when cleanup_rate_limits
\* removes that key's expired entry while the handler is still running between
\* the count increment and the header write.
C40_AdmittedReturnsHandlerResponse ==
    \A d \in Admitted :
        /\ dispatch[d].line = "returned"
        /\ dispatch[d].response # None
        /\ The(dispatch[d].response).status_code = HandlerResponse.status_code
        /\ DOMAIN The(dispatch[d].response).headers = RateLimitHeaders

\* An admitted request has returned its handler's response with the headers
C40_Returned ==
    \E d \in Admitted : dispatch[d].line = "returned"

====
